---- MODULE Spec2Model ----
(***************************************************************************)
(* Briefing aggregation and fault-tolerant dispatch pipeline:              *)
(*   - notifier      (lib/server/notifier.ts,   src/unnamed/part_000)      *)
(*   - report route  (app/api/report/route.ts,  src/unnamed/part_002)      *)
(*   - scheduler     (scripts/scheduler.ts,     src/unnamed/part_003)      *)
(*                                                                         *)
(* Optional JavaScript values are modelled as sequences of length <= 1:    *)
(* <<>> is undefined/null, <<v>> is the value v.  A JavaScript string that *)
(* the code splits or trims is a sequence of pieces (one-character strings *)
(* for the recipients, white space characters and runs for a text).        *)
(* Characters outside ASCII are written as their \uXXXX escapes.           *)
(***************************************************************************)
EXTENDS Integers, Sequences, FiniteSets, TLC

\* ------------------------------------------------------------------ bounds
MaxTicks == 3
MaxClock == 2
MaxRequests == 2

\* -------------------------------------------------------- generic helpers
Undefined == <<>>
Some(v) == <<v>>
\* a ?? b
Coalesce(a, b) == IF a = Undefined THEN b ELSE a
\* truthiness of an optional string: undefined and "" are falsy
Truthy(o) == o # Undefined /\ o[1] # ""
\* a || b on optional strings
OrElse(a, b) == IF Truthy(a) THEN a ELSE b

\* Response.ok of the fetch API: status in 200..299
ResponseOk(resp) == resp.status >= 200 /\ resp.status <= 299

\* error instanceof Error ? error.message : fallback
ErrorMessage(error, fallback) == IF error.isError THEN error.message ELSE fallback

\* what a fetch can do: resolve with a response, or reject with a thrown value
Thrown(err) == [kind |-> "throw", error |-> err]
NetError == [isError |-> TRUE, message |-> "fetch failed"]
EmptyError == [isError |-> TRUE, message |-> ""]
NonError == [isError |-> FALSE]
\* what response.json() throws on a response without a body
SyntaxError == [isError |-> TRUE, message |-> "Unexpected end of JSON input"]

\* ---------------------------------------------------------------- notifier
Slots == {"am", "pm"}

RECURSIVE SplitFrom(_, _, _)
SplitFrom(s, i, cur) ==
  IF i > Len(s) THEN <<cur>>
  ELSE IF s[i] = "," THEN <<cur>> \o SplitFrom(s, i + 1, <<>>)
  ELSE SplitFrom(s, i + 1, Append(cur, s[i]))
\* String.prototype.split(",")
split(s) == SplitFrom(s, 1, <<>>)

\* the code points String.prototype.trim() strips: WhiteSpace (TAB, VT, FF, SP, NBSP,
\* ZWNBSP and the space separators) and LineTerminator (LF, CR, LS, PS)
WhiteSpace ==
  {"\t", "\\u000B", "\f", " ", "\\u00A0", "\\uFEFF", "\\u1680", "\\u2000", "\\u2001",
   "\\u2002", "\\u2003", "\\u2004", "\\u2005", "\\u2006", "\\u2007", "\\u2008",
   "\\u2009", "\\u200A", "\\u202F", "\\u205F", "\\u3000"}
LineTerminator == {"\n", "\r", "\\u2028", "\\u2029"}

RECURSIVE trimStart(_)
trimStart(s) == IF s # <<>> /\ Head(s) \in WhiteSpace \cup LineTerminator THEN trimStart(Tail(s)) ELSE s
RECURSIVE trimEnd(_)
trimEnd(s) ==
  IF s # <<>> /\ s[Len(s)] \in WhiteSpace \cup LineTerminator THEN trimEnd(SubSeq(s, 1, Len(s) - 1)) ELSE s
\* String.prototype.trim()
trim(s) == trimEnd(trimStart(s))

MapTrim(list) == [i \in 1..Len(list) |-> trim(list[i])]
NonEmpty(entry) == Len(entry) > 0

\* normaliseRecipients(list): the !list branch and the array branch, the two that
\* sendEmail reaches (it passes options.to, a string[], or the split variable)
normaliseRecipients(list) ==
  IF list = Undefined THEN <<>>
  ELSE SelectSeq(MapTrim(list[1]), NonEmpty)

\* process.env.REPORT_RECIPIENTS?.split(",")
EnvRecipientList(e) ==
  IF e.REPORT_RECIPIENTS = Undefined THEN Undefined
  ELSE Some(split(e.REPORT_RECIPIENTS[1]))

SlackWebhook(options, e) == Coalesce(options.webhookUrl, e.SLACK_WEBHOOK_URL)

\* sendSlack: resp is what fetchImpl does when it is called
sendSlack(options, e, resp) ==
  LET webhook == SlackWebhook(options, e) IN
  IF ~Truthy(webhook)
  THEN [channel |-> "slack", ok |-> FALSE, error |-> "Missing Slack webhook URL"]
  ELSE IF resp.kind = "throw"
  THEN [channel |-> "slack", ok |-> FALSE,
        error |-> ErrorMessage(resp.error, "Slack webhook error")]
  ELSE IF ~ResponseOk(resp)
  THEN [channel |-> "slack", ok |-> FALSE,
        error |-> "Slack webhook responded " \o ToString(resp.status)]
  ELSE [channel |-> "slack", ok |-> TRUE]

\* number of requests sendSlack issues
sendSlackRequests(options, e) == IF Truthy(SlackWebhook(options, e)) THEN 1 ELSE 0

EmailRecipients(options, e) == normaliseRecipients(Coalesce(options.to, EnvRecipientList(e)))
EmailApiKey(options, e) == Coalesce(options.apiKey, e.RESEND_API_KEY)
EmailSender(options, e) == Coalesce(options.from, e.REPORT_SENDER)

\* sendEmail checking the credential before the recipients
sendEmail_KeyFirst(options, e, resp) ==
  IF ~Truthy(EmailApiKey(options, e))
  THEN [channel |-> "email", ok |-> FALSE, error |-> "Missing Resend API key"]
  ELSE IF Len(EmailRecipients(options, e)) = 0
  THEN [channel |-> "email", ok |-> FALSE, error |-> "Missing email recipients"]
  ELSE IF ~Truthy(EmailSender(options, e))
  THEN [channel |-> "email", ok |-> FALSE, error |-> "Missing report sender address"]
  ELSE IF resp.kind = "throw"
  THEN [channel |-> "email", ok |-> FALSE,
        error |-> ErrorMessage(resp.error, "Resend request failed")]
  ELSE IF ~ResponseOk(resp)
  THEN [channel |-> "email", ok |-> FALSE,
        error |-> "Resend responded " \o ToString(resp.status)]
  ELSE [channel |-> "email", ok |-> TRUE]

\* sendEmail: resp is what fetchImpl does when it is called
sendEmail(options, e, resp) ==
  IF Len(EmailRecipients(options, e)) = 0
  THEN [channel |-> "email", ok |-> FALSE, error |-> "Missing email recipients"]
  ELSE IF ~Truthy(EmailApiKey(options, e))
  THEN [channel |-> "email", ok |-> FALSE, error |-> "Missing Resend API key"]
  ELSE IF ~Truthy(EmailSender(options, e))
  THEN [channel |-> "email", ok |-> FALSE, error |-> "Missing report sender address"]
  ELSE IF resp.kind = "throw"
  THEN [channel |-> "email", ok |-> FALSE,
        error |-> ErrorMessage(resp.error, "Resend request failed")]
  ELSE IF ~ResponseOk(resp)
  THEN [channel |-> "email", ok |-> FALSE,
        error |-> "Resend responded " \o ToString(resp.status)]
  ELSE [channel |-> "email", ok |-> TRUE]

\* number of requests sendEmail issues
sendEmailRequests(options, e) ==
  IF /\ Len(EmailRecipients(options, e)) > 0
     /\ Truthy(EmailApiKey(options, e))
     /\ Truthy(EmailSender(options, e))
  THEN 1 ELSE 0

\* ------------------------------------------------------------ report route
DEFAULT_TZ == "Asia/Dubai"
VESSEL_DATASET == [timezone |-> "Asia/Dubai", vessel |-> [port |-> "Jebel Ali"]]
REPORT_SLOTS == [am |-> "06:00", pm |-> "17:00"]

HOUR_MS == 60 * 60 * 1000
MINUTE_MS == 60 * 1000

\* resolveTimezone()
resolveTimezone(e) ==
  OrElse(e.REPORT_TIMEZONE, OrElse(Some(VESSEL_DATASET.timezone), Some(DEFAULT_TZ)))[1]

\* the names Intl.DateTimeFormat takes for a timeZone, of those the model uses;
\* any other text, "Dubai" for one, makes the constructor throw
IntlZones == {"Asia/Dubai", "Asia/Karachi", "UTC", "Pacific/Gambier"}
\* RangeError: Invalid time zone specified: <the name that was rejected>
RangeError(timezone) ==
  [isError |-> TRUE, message |-> "Invalid time zone specified: " \o timezone]

\* offset from UTC, in hours, of a zone of IntlZones
UtcOffsetHours(timezone) ==
  CASE timezone = "Asia/Dubai" -> 4
    [] timezone = "Asia/Karachi" -> 5
    [] timezone = "UTC" -> 0
    [] timezone = "Pacific/Gambier" -> 0 - 9

\* new Intl.DateTimeFormat("en-GB", {timeZone: timezone, ...}): the formatter of
\* a zone, or the RangeError thrown for a name that is no zone
DateTimeFormat(timezone) ==
  IF timezone \in IntlZones
  THEN [threw |-> FALSE, value |-> [timeZone |-> timezone]]
  ELSE [threw |-> TRUE, error |-> RangeError(timezone)]

Digits == <<"0", "1", "2", "3", "4", "5", "6", "7", "8", "9">>
DigitValue(ch) == CHOOSE d \in 0..9 : Digits[d + 1] = ch

\* formatter.format(now), for the formatter of {timeZone, hour: "2-digit", hour12: false}
FormatHour(t, timezone) ==
  LET h == ((t \div HOUR_MS) + UtcOffsetHours(timezone) + 24) % 24
  IN <<Digits[(h \div 10) + 1], Digits[(h % 10) + 1]>>

RECURSIVE parseIntFrom(_, _, _)
parseIntFrom(cs, i, acc) ==
  IF i > Len(cs) THEN acc ELSE parseIntFrom(cs, i + 1, 10 * acc + DigitValue(cs[i]))
\* Number.parseInt(text, 10) on a string of decimal digits
parseInt(cs) == parseIntFrom(cs, 1, 0)

\* inferSlot reading the hour of the UTC day
inferSlot_UtcHour(t, timezone) ==
  LET formatter == DateTimeFormat(timezone)
  IN IF formatter.threw THEN formatter
     ELSE [threw |-> FALSE,
           value |-> IF parseInt(FormatHour(t, "UTC")) < 12 THEN "am" ELSE "pm"]

\* inferSlot(now, timezone): the slot it returns, or the error the constructor of
\* the formatter throws through it
inferSlot(t, timezone) ==
  LET formatter == DateTimeFormat(timezone)
  IN IF formatter.threw THEN formatter
     ELSE [threw |-> FALSE,
           value |-> IF parseInt(FormatHour(t, formatter.value.timeZone)) < 12
                     THEN "am" ELSE "pm"]

\* slotParam is url.searchParams.get("slot"): Undefined (null) or Some(text)
normaliseSlot(slotParam, t, timezone) ==
  IF slotParam = Some("am") \/ slotParam = Some("pm")
  THEN [threw |-> FALSE, value |-> slotParam[1]]
  ELSE inferSlot(t, timezone)

Pad2(n) == IF n < 10 THEN "0" \o ToString(n) ELSE ToString(n)
Pad3(n) == IF n < 10 THEN "00" \o ToString(n)
           ELSE IF n < 100 THEN "0" \o ToString(n) ELSE ToString(n)
\* Date.prototype.toISOString() for an instant of January 1970 (epoch milliseconds)
toISOString(t) ==
  "1970-01-" \o Pad2((t \div (24 * HOUR_MS)) + 1) \o "T" \o Pad2((t \div HOUR_MS) % 24) \o ":" \o Pad2((t \div MINUTE_MS) % 60)
    \o ":" \o Pad2((t \div 1000) % 60) \o "." \o Pad3(t % 1000) \o "Z"

\* fetchJson: the response of fetch() mapped to a value or a thrown error
FetchFailed(pathname, status) ==
  [isError |-> TRUE, message |-> "Failed to fetch " \o pathname \o ": " \o ToString(status)]
fetchJson(resp, pathname) ==
  IF resp.kind = "throw" THEN [threw |-> TRUE, error |-> resp.error]
  ELSE IF ~ResponseOk(resp) THEN [threw |-> TRUE, error |-> FetchFailed(pathname, resp.status)]
  ELSE IF resp.json = Undefined THEN [threw |-> TRUE, error |-> SyntaxError]
  ELSE [threw |-> FALSE, value |-> resp.json[1]]

\* A JavaScript number, in hundredths; NotFinite stands for NaN and +-Infinity
Num(c) == [fin |-> TRUE, c |-> c]
NotFinite == [fin |-> FALSE]
IsFiniteNumber(v) == v # Undefined /\ v[1].fin

\* Number.prototype.toFixed(2) and toFixed(0): the sign, then the digits of the
\* magnitude, a tie rounding away from zero
toFixed2(n) ==
  LET x == IF n.c < 0 THEN 0 - n.c ELSE n.c
  IN (IF n.c < 0 THEN "-" ELSE "") \o ToString(x \div 100) \o "." \o Pad2(x % 100)
toFixed0(n) ==
  LET x == IF n.c < 0 THEN 0 - n.c ELSE n.c
  IN (IF n.c < 0 THEN "-" ELSE "") \o ToString((x + 50) \div 100)

formatMetric(value, unit) ==
  IF IsFiniteNumber(value) THEN toFixed2(value[1]) \o " " \o unit
  ELSE "n/a " \o unit

NoMarineLine == "[Marine Snapshot] \\uB370\\uC774\\uD130 \\uC5C6\\uC74C"
\* snapshot: Undefined (null) or Some(record with optional hs, windKt, ioi, port)
buildMarineLine(snapshot) ==
  IF snapshot = Undefined THEN NoMarineLine
  ELSE LET hs == formatMetric(snapshot[1].hs, "m")
           wind == formatMetric(snapshot[1].windKt, "kt")
           ioi == IF IsFiniteNumber(snapshot[1].ioi) THEN toFixed0(snapshot[1].ioi[1]) ELSE "n/a"
       IN "[Marine Snapshot] Hs " \o hs \o " \\u00B7 Wind " \o wind \o " \\u00B7 IOI " \o ioi

\* A text is the sequence of its pieces: every white space or line terminator
\* character is a piece of its own, and so is every run of other characters between
\* two of them (a line of the marine snapshot counts as one piece).  The empty string
\* is <<>>.
\* [briefing.trim(), "", marineLine].join("\n")
composeSample(briefing, marineLine) == trim(briefing) \o <<"\n", "\n", marineLine>>

slackMessage(sample, slot, timezone) ==
  LET label == IF slot = "am" THEN "Morning" ELSE "Evening"
  IN <<"*Daily Report \\u2013 " \o label \o " (" \o timezone \o ")*", "\n", "\n">> \o sample

toUpperCase(slot) == IF slot = "am" THEN "AM" ELSE "PM"
emailSubject(vesselName, slot, timezone) ==
  LET slotLabel == IF slot = "am" THEN "06:00" ELSE "17:00"
  IN vesselName \o " \\uC790\\uB3D9 \\uBE0C\\uB9AC\\uD551 \\u00B7 " \o toUpperCase(slot) \o " (" \o slotLabel \o " " \o timezone \o ")"

\* SentOk with every() in place of some()
SentOk_Every(sent) == \A i \in 1..Len(sent) : sent[i].ok

\* GET, line 211: sent.some((entry) => entry.ok)
SentOk(sent) == \E i \in 1..Len(sent) : sent[i].ok

\* GET, preview branch (lines 141-151): last is the stored lastReport
PreviewResponse(last, timezone) ==
  [status |-> 200,
   body |-> [ok |-> IF last = Undefined THEN FALSE ELSE SentOk(last[1].sent),
             preview |-> TRUE,
             generatedAt |-> IF last = Undefined THEN Undefined ELSE Some(last[1].generatedAt),
             slot |-> IF last = Undefined THEN Undefined ELSE Some(last[1].slot),
             timezone |-> timezone,
             sample |-> IF last = Undefined THEN Undefined ELSE Some(last[1].sample),
             sent |-> IF last = Undefined THEN <<>> ELSE last[1].sent]]

\* AbortResponse without the { status: 502 } argument
AbortResponse_Status200(error, fallback) ==
  [status |-> 200, body |-> [ok |-> FALSE, error |-> ErrorMessage(error, fallback)]]

\* GET, the catch blocks of the vessel and briefing fetches
AbortResponse(error, fallback) ==
  [status |-> 502, body |-> [ok |-> FALSE, error |-> ErrorMessage(error, fallback)]]

\* GET, the briefing fetch: fetch + status check + json + data?.briefing ?? ""
BriefingRouteError(status) ==
  [isError |-> TRUE, message |-> "Briefing route responded " \o ToString(status)]
fetchBriefing(resp) ==
  IF resp.kind = "throw" THEN [threw |-> TRUE, error |-> resp.error]
  ELSE IF ~ResponseOk(resp) THEN [threw |-> TRUE, error |-> BriefingRouteError(resp.status)]
  ELSE IF resp.json = Undefined THEN [threw |-> TRUE, error |-> SyntaxError]
  ELSE [threw |-> FALSE, value |-> Coalesce(resp.json[1].briefing, Some(<<>>))[1]]

\* GET, the marine fetch: any failure leaves the snapshot null
fetchMarine(resp) ==
  LET r == fetchJson(resp, "/api/marine") IN
  IF r.threw THEN Undefined ELSE Some(r.value)

\* GET, lines 210-219: the record stored in lastReport
ReportMeta(slot, t, timezone, sample, sent) ==
  [slot |-> slot, generatedAt |-> toISOString(t), timezone |-> timezone,
   sample |-> sample, sent |-> sent]

\* ReportResponse answering 502 when no channel took the report
ReportResponse_ErrorWhenNoneSent(meta, vesselData, marineSnapshot) ==
  [status |-> IF SentOk(meta.sent) THEN 200 ELSE 502,
   body |-> [ok |-> SentOk(meta.sent),
             slot |-> meta.slot,
             generatedAt |-> meta.generatedAt,
             timezone |-> meta.timezone,
             sample |-> meta.sample,
             sent |-> meta.sent,
             scheduleSize |-> vesselData.scheduleSize,
             marine |-> IF marineSnapshot # Undefined
                        THEN [port |-> marineSnapshot[1].port]
                        ELSE [error |-> "n/a"],
             slotTime |-> REPORT_SLOTS[meta.slot]]]

\* GET, lines 221-231: the response of a pass that was not aborted
ReportResponse(meta, vesselData, marineSnapshot) ==
  [status |-> 200,
   body |-> [ok |-> SentOk(meta.sent),
             slot |-> meta.slot,
             generatedAt |-> meta.generatedAt,
             timezone |-> meta.timezone,
             sample |-> meta.sample,
             sent |-> meta.sent,
             scheduleSize |-> vesselData.scheduleSize,
             marine |-> IF marineSnapshot # Undefined
                        THEN [port |-> marineSnapshot[1].port]
                        ELSE [error |-> "n/a"],
             slotTime |-> REPORT_SLOTS[meta.slot]]]

\* ------------------------------------------------- inputs of the environment
Status(n) == [kind |-> "response", status |-> n, json |-> Undefined]
Json(n, value) == [kind |-> "response", status |-> n, json |-> Some(value)]
\* the bodyless answer used where no request is issued
NoCall == [kind |-> "none"]

VesselPayload == [name |-> Some("JOPETWIL 71"), port |-> Undefined, scheduleSize |-> 1]
FullSnapshot == [hs |-> Some(Num(120)), windKt |-> Some(Num(1540)),
                 ioi |-> Some(Num(8200)), port |-> Some("Jebel Ali")]
\* "\n \tHeadline\nBody\r\n\u00A0"
PaddedBriefingBody ==
  [briefing |-> Some(<<"\n", " ", "\t", "Headline", "\n", "Body", "\r", "\n", "\\u00A0">>)]

\* what each endpoint can answer to a pass
VesselResponses == {Json(200, VesselPayload), Status(500), Thrown(NonError)}
MarineResponses == {Json(200, FullSnapshot), Status(503), Thrown(NetError)}
BriefingResponses == {Json(200, PaddedBriefingBody), Status(500), Thrown(NetError)}
SlackResponses == {Status(200), Status(500), Thrown(NonError)}
EmailResponses == {Status(200), Status(500), Thrown(NetError)}

\* process.env of the server
FullEnv ==
  [SLACK_WEBHOOK_URL |-> Some("https://hooks.slack.com/services/test"),
   RESEND_API_KEY |-> Some("test"),
   REPORT_SENDER |-> Some("no-reply@example.com"),
   REPORT_RECIPIENTS |-> Some(<<"o", "p", "s", "@", "x">>),
   REPORT_TIMEZONE |-> Some("Asia/Dubai")]
Envs ==
  {FullEnv,
   [FullEnv EXCEPT !.SLACK_WEBHOOK_URL = Undefined],
   [FullEnv EXCEPT !.RESEND_API_KEY = Undefined, !.REPORT_TIMEZONE = Some("Asia/Karachi")],
   [FullEnv EXCEPT !.SLACK_WEBHOOK_URL = Some(""), !.REPORT_RECIPIENTS = Some(<<" ", ",">>),
                   !.REPORT_TIMEZONE = Undefined],
   [FullEnv EXCEPT !.REPORT_TIMEZONE = Some("Dubai")]}

\* ------------------------------------------------------------------- state
VARIABLES
  clock,       \* Date.now(), epoch milliseconds
  env,         \* process.env of the server
  lastReport,  \* route.ts: let lastReport
  passes,      \* the GET requests in progress, by request id
  lockFile,    \* the content of the scheduler's lock file
  ticks,       \* the triggerReport calls, by tick id
  requested,   \* the number of requests the clients of the route have made
  args,        \* the arguments of a direct call of an exported function
  result,      \* what that call returned, once it has returned
  reportState  \* report-state.ts: let lastReport, with the calls made on it

vars ==
  <<clock, env, lastReport, passes, lockFile, ticks, requested, args, result, reportState>>

\* ------------------------------------------------------------ GET, by segment
\* A pass is one call of GET.  Each segment is the code that runs between two
\* awaits; pc names the await the pass is suspended at.  The fields from
\* vesselAnswer on are no variables of the code: they keep what each endpoint
\* answered and what configuration each send read, for the properties.
FreePass ==
  [pc |-> "free", preview |-> FALSE, at |-> 0, timezone |-> "", slotParam |-> Undefined,
   vesselData |-> Undefined, slot |-> Undefined,
   marineSnapshot |-> Undefined, sample |-> <<>>, sent |-> <<>>,
   response |-> Undefined,
   vesselAnswer |-> NoCall, marineAnswer |-> NoCall, briefingAnswer |-> NoCall,
   slackAnswer |-> NoCall, slackConfig |-> Undefined,
   emailAnswer |-> NoCall, emailConfig |-> <<>>]

\* GetStart without the preview branch
GetStart_IgnoresPreview(req, t, e, last) ==
  [FreePass EXCEPT !.pc = "vessel", !.preview = req.preview, !.at = t,
                   !.timezone = resolveTimezone(e), !.slotParam = req.slot]

\* lines 136-155: up to the vessel fetch, or the preview response
GetStart(req, t, e, last) ==
  IF req.preview
  THEN [FreePass EXCEPT !.pc = "done", !.preview = TRUE, !.at = t,
                        !.timezone = resolveTimezone(e),
                        !.response = Some(PreviewResponse(last, resolveTimezone(e)))]
  ELSE [FreePass EXCEPT !.pc = "vessel", !.at = t, !.timezone = resolveTimezone(e),
                        !.slotParam = req.slot]

\* what the framework answers when GET rejects with an error no catch block of
\* GET took: status 500 and a body that is not one of the route
UnhandledResponse(error) == [status |-> 500, body |-> [unhandled |-> error.message]]

\* lines 155-167: the vessel fetch returns; slot; the marine fetch is issued.
\* normaliseSlot is called at line 161, outside the try blocks: what it throws
\* ends the pass
GetVessel(p, resp) ==
  LET r == fetchJson(resp, "/api/vessel")
      slot == normaliseSlot(p.slotParam, p.at, p.timezone)
  IN IF r.threw
     THEN [p EXCEPT !.pc = "done", !.vesselAnswer = resp,
                    !.response = Some(AbortResponse(r.error, "Failed to fetch vessel data"))]
     ELSE IF slot.threw
     THEN [p EXCEPT !.pc = "done", !.vesselAnswer = resp, !.vesselData = Some(r.value),
                    !.response = Some(UnhandledResponse(slot.error))]
     ELSE [p EXCEPT !.pc = "marine", !.vesselAnswer = resp, !.vesselData = Some(r.value),
                    !.slot = Some(slot.value)]

\* GetMarine treating the marine fetch like a mandatory one
GetMarine_Aborts(p, resp) ==
  IF fetchJson(resp, "/api/marine").threw
  THEN [p EXCEPT !.pc = "done", !.marineAnswer = resp,
                 !.response = Some(AbortResponse(fetchJson(resp, "/api/marine").error,
                                                 "Failed to fetch marine data"))]
  ELSE [p EXCEPT !.pc = "briefing", !.marineAnswer = resp,
                 !.marineSnapshot = fetchMarine(resp)]

\* lines 167-187: the marine fetch returns; the briefing fetch is issued
GetMarine(p, resp) ==
  [p EXCEPT !.pc = "briefing", !.marineAnswer = resp,
            !.marineSnapshot = fetchMarine(resp)]

\* GetBriefing sending the report with an empty briefing when the fetch fails
GetBriefing_SendsAnyway(p, resp) ==
  LET r == fetchBriefing(resp) IN
  [p EXCEPT !.pc = "slack", !.briefingAnswer = resp,
            !.sample = composeSample(IF r.threw THEN <<>> ELSE r.value,
                                     buildMarineLine(p.marineSnapshot))]

\* lines 183-203: the briefing fetch returns; sample; sendSlack is called
GetBriefing(p, resp) ==
  LET r == fetchBriefing(resp) IN
  IF r.threw
  THEN [p EXCEPT !.pc = "done", !.briefingAnswer = resp,
                 !.response = Some(AbortResponse(r.error, "Failed to generate briefing"))]
  ELSE [p EXCEPT !.pc = "slack", !.briefingAnswer = resp,
                 !.sample = composeSample(r.value, buildMarineLine(p.marineSnapshot))]

SlackOptions(p) ==
  [message |-> slackMessage(p.sample, p.slot[1], p.timezone), webhookUrl |-> Undefined]
EmailOptions(p) ==
  [subject |-> emailSubject(Coalesce(p.vesselData[1].name, Some("Vessel"))[1],
                            p.slot[1], p.timezone),
   text |-> p.sample, to |-> Undefined, from |-> Undefined, apiKey |-> Undefined]

\* lines 201-208: sendSlack returns; sendEmail is called
GetSlack(p, resp, e) ==
  [p EXCEPT !.pc = "email", !.sent = <<sendSlack(SlackOptions(p), e, resp)>>,
            !.slackAnswer = resp, !.slackConfig = e.SLACK_WEBHOOK_URL]

\* GetEmail keeping only the results of the sends that succeeded
GetEmail_DropsFailures(p, resp, e) ==
  LET sent == SelectSeq(<<p.sent[1], sendEmail(EmailOptions(p), e, resp)>>,
                        LAMBDA r : r.ok)
      meta == ReportMeta(p.slot[1], p.at, p.timezone, p.sample, sent)
  IN [p EXCEPT !.pc = "done", !.sent = sent,
               !.emailAnswer = resp,
               !.emailConfig = <<e.REPORT_RECIPIENTS, e.RESEND_API_KEY, e.REPORT_SENDER>>,
               !.response = Some(ReportResponse(meta, p.vesselData[1], p.marineSnapshot))]

\* GetEmail giving up on the email once the Slack send has failed
GetEmail_SkipsAfterSlackFailure(p, resp, e) ==
  LET emailResult == IF p.sent[1].ok THEN sendEmail(EmailOptions(p), e, resp)
                     ELSE [channel |-> "email", ok |-> FALSE, error |-> "Skipped"]
      sent == <<p.sent[1], emailResult>>
      meta == ReportMeta(p.slot[1], p.at, p.timezone, p.sample, sent)
  IN [p EXCEPT !.pc = "done", !.sent = sent,
               !.emailAnswer = resp,
               !.emailConfig = <<e.REPORT_RECIPIENTS, e.RESEND_API_KEY, e.REPORT_SENDER>>,
               !.response = Some(ReportResponse(meta, p.vesselData[1], p.marineSnapshot))]

\* lines 205-231: sendEmail returns; sent, ok, lastReport and the response
GetEmail(p, resp, e) ==
  LET sent == <<p.sent[1], sendEmail(EmailOptions(p), e, resp)>>
      meta == ReportMeta(p.slot[1], p.at, p.timezone, p.sample, sent)
  IN [p EXCEPT !.pc = "done", !.sent = sent,
               !.emailAnswer = resp,
               !.emailConfig = <<e.REPORT_RECIPIENTS, e.RESEND_API_KEY, e.REPORT_SENDER>>,
               !.response = Some(ReportResponse(meta, p.vesselData[1], p.marineSnapshot))]

\* the value GetEmail assigns to lastReport
GetEmailMeta(p, resp, e) ==
  ReportMeta(p.slot[1], p.at, p.timezone, p.sample,
             <<p.sent[1], sendEmail(EmailOptions(p), e, resp)>>)

\* GET run from the request to the response with nothing else running in between:
\* in gives the answer of each of the five endpoints
GET(req, t, e, last, in) ==
  LET p0 == GetStart(req, t, e, last)
      p1 == IF p0.pc = "done" THEN p0 ELSE GetVessel(p0, in.vessel)
      p2 == IF p1.pc = "done" THEN p1 ELSE GetMarine(p1, in.marine)
      p3 == IF p2.pc = "done" THEN p2 ELSE GetBriefing(p2, in.briefing)
      p4 == IF p3.pc = "done" THEN p3 ELSE GetSlack(p3, in.slack, e)
      p5 == IF p4.pc = "done" THEN p4 ELSE GetEmail(p4, in.email, e)
  IN [response |-> p5.response[1],
      lastReport |-> IF p3.pc = "done" THEN last ELSE Some(GetEmailMeta(p4, in.email, e))]

\* ---------------------------------------------------------------- scheduler
WINDOW_MS == 5 * 60 * 1000
DAY_MS == 24 * HOUR_MS
\* 1970-01-01T07:57:00.000Z, the instant the clients of the route call it at:
\* 11:57 in Asia/Dubai and 12:57 in Asia/Karachi
START == 7 * HOUR_MS + 57 * MINUTE_MS

\* const timezone = process.env.REPORT_TIMEZONE ?? "Asia/Dubai", for each of the
\* scheduler processes that run against one lock file: unset or Asia/Dubai for
\* some, Pacific/Gambier (UTC-9) for others
SchedulerZones == {"Asia/Dubai", "Pacific/Gambier"}
\* the hour field of the patterns "0 6 * * *" and "0 17 * * *"
CronHour == [am |-> 6, pm |-> 17]
\* cron.schedule(pattern, callback, { timezone }): the job of slot is due at t when
\* the wall clock of the zone reads hh:00:00
CronDue(slot, t, timezone) ==
  ((t + UtcOffsetHours(timezone) * HOUR_MS) % DAY_MS) \div 1000 = CronHour[slot] * 3600

\* 1970-01-02T02:00:00.000Z: 06:00 in Asia/Dubai and 17:00 (of the day before) in
\* Pacific/Gambier
FIRST_FIRE == DAY_MS + 2 * HOUR_MS
\* the delay with which a callback that is due can run and read Date.now()
LAG_MS == 20
\* the instants the clock takes: two inside the second a job is due in, then two
\* a day later, and so on.  The first lies exactly one window after the
\* timestamp of HeldLock, the second 20 ms more.
Instant(k) == FIRST_FIRE + (k \div 2) * DAY_MS + (k % 2) * LAG_MS
Instants == {Instant(k) : k \in 0..MaxClock}

TickIds == 1..MaxTicks
\* the request id under which the server serves the dispatch request of tick i
TickPass(i) == "t" \o ToString(i)
TickPassIds == {TickPass(i) : i \in TickIds}

\* A tick is one call of triggerReport, made by the cron callback of a scheduler
\* process.  now is the local of a call in progress; of a call that returned, the
\* record keeps the slot and, for a dispatch, the timestamp it wrote.  requests
\* and writes count the calls of fetch and of writeLock the call has made.
\* inFlight says that fetch was called and that the request has not reached the
\* server (it may do so after the call gave up, or never).
IdleTick ==
  [pc |-> "idle", slot |-> "am", now |-> 0, requests |-> 0, writes |-> 0,
   inFlight |-> FALSE]

\* the record of a call that ended in the catch block or on a response that is
\* not a success
FailedTick(tick) ==
  [IdleTick EXCEPT !.pc = "failed", !.slot = tick.slot, !.requests = tick.requests,
                   !.writes = tick.writes, !.inFlight = tick.inFlight]

\* a lock file whose content JSON.parse rejects
Garbage == [garbage |-> TRUE]

\* readLock(): null when the file is missing or unparsable
readLock(file) ==
  IF file = Undefined THEN Undefined
  ELSE IF file[1] = Garbage THEN Undefined
  ELSE file

\* writeLock(data)
writeLock(data) == Some(data)

\* The lock file lies at a path the operator chooses (REPORT_LOCK_PATH) and
\* outlives the process.  A record found in it when the scheduler starts: it
\* names the morning slot and an instant exactly one window before the first job
\* is due.
HeldLock == [slot |-> "am", timestamp |-> FIRST_FIRE - WINDOW_MS]

\* Skips with the boundary of the window on the wrong side
Skips_Inclusive(last, slot, now) ==
  /\ last # Undefined
  /\ last[1].slot = slot
  /\ now - last[1].timestamp <= WINDOW_MS

\* Skips without the window: any record of the slot suppresses the tick
Skips_Forever(last, slot, now) ==
  /\ last # Undefined
  /\ last[1].slot = slot

\* triggerReport, line 50: the guard of the skip branch
Skips(last, slot, now) ==
  /\ last # Undefined
  /\ last[1].slot = slot
  /\ now - last[1].timestamp < WINDOW_MS

\* TickStart refreshing the timestamp of the lock when it skips
TickStart_RefreshesLock(i, slot) ==
  /\ ticks[i].pc = "idle"
  /\ \A j \in TickIds : j < i => ticks[j].pc # "idle"
  /\ \E timezone \in SchedulerZones : CronDue(slot, clock, timezone)
  /\ LET last == readLock(lockFile)
         now == clock
     IN /\ ticks' = [ticks EXCEPT ![i] =
             IF Skips(last, slot, now)
             THEN [IdleTick EXCEPT !.pc = "skip", !.slot = slot]
             ELSE [IdleTick EXCEPT !.pc = "awaiting", !.slot = slot, !.now = now,
                                   !.requests = ticks[i].requests + 1,
                                   !.inFlight = TRUE]]
        /\ lockFile' = IF Skips(last, slot, now)
                       THEN writeLock([slot |-> slot, timestamp |-> now])
                       ELSE lockFile
  /\ UNCHANGED <<clock, env, lastReport, passes, requested, args, result, reportState>>

\* lines 71-85 and triggerReport, lines 48-56: the job of slot is due in the zone
\* of a scheduler process, its callback calls triggerReport(slot), which runs up
\* to the await of fetch (ticks start in id order)
TickStart(i, slot) ==
  /\ ticks[i].pc = "idle"
  /\ \A j \in TickIds : j < i => ticks[j].pc # "idle"
  /\ \E timezone \in SchedulerZones : CronDue(slot, clock, timezone)
  /\ LET last == readLock(lockFile)
         now == clock
     IN ticks' = [ticks EXCEPT ![i] =
          IF Skips(last, slot, now)
          THEN [IdleTick EXCEPT !.pc = "skip", !.slot = slot]
          ELSE [IdleTick EXCEPT !.pc = "awaiting", !.slot = slot, !.now = now,
                                !.requests = ticks[i].requests + 1,
                                !.inFlight = TRUE]]
  /\ UNCHANGED <<clock, env, lastReport, passes, lockFile, requested, args, result, reportState>>

\* what the five endpoints answer to the passes that serve dispatch requests: the
\* vessel route answers or fails, the marine route answers, the briefing route
\* answers or has nothing to say, Slack takes the message or refuses it, and the
\* email API takes the message or is out of reach
DispatchVessel == {Json(200, VesselPayload), Status(500)}
DispatchMarine == {Json(200, FullSnapshot)}
DispatchBriefing == {Json(200, PaddedBriefingBody), Status(204)}
DispatchSlack == {Status(200), Status(500)}
DispatchEmail == {Status(200), Thrown(NetError)}

\* triggerReport, line 56, and GET, lines 136-155: the request of tick i reaches
\* the server, which calls GET; the pass runs up to its first await.  The server
\* serves the request whether triggerReport still awaits or has given up in its
\* catch block.
TickArrives(i) ==
  /\ ticks[i].inFlight
  /\ passes[TickPass(i)].pc = "free"
  /\ passes' = [passes EXCEPT ![TickPass(i)] =
       GetStart([slot |-> Some(ticks[i].slot), preview |-> FALSE], clock, env, lastReport)]
  /\ ticks' = [ticks EXCEPT ![i].inFlight = FALSE]
  /\ UNCHANGED <<clock, env, lastReport, lockFile, requested, args, result, reportState>>

\* the response of the pass that serves tick i, once GET has returned
Served(i) == passes[TickPass(i)].response

\* TickResponse recording the time the response arrived
TickResponse_StampsAtReturn(i) ==
  /\ ticks[i].pc = "awaiting"
  /\ passes[TickPass(i)].pc = "done"
  /\ LET response == Served(i)[1]
         json == response.body
     IN IF ~ResponseOk(response) \/ ~json.ok
        THEN /\ ticks' = [ticks EXCEPT ![i] = FailedTick(ticks[i])]
             /\ UNCHANGED lockFile
        ELSE /\ lockFile' = writeLock([slot |-> ticks[i].slot, timestamp |-> clock])
             /\ ticks' = [ticks EXCEPT ![i].pc = "dispatched",
                                       ![i].writes = ticks[i].writes + 1]
  /\ UNCHANGED <<clock, env, lastReport, passes, requested, args, result, reportState>>

\* TickResponse recording the run on any HTTP success, whatever the body says
TickResponse_IgnoresBodyOk(i) ==
  /\ ticks[i].pc = "awaiting"
  /\ passes[TickPass(i)].pc = "done"
  /\ LET response == Served(i)[1]
     IN IF ~ResponseOk(response)
        THEN /\ ticks' = [ticks EXCEPT ![i] = FailedTick(ticks[i])]
             /\ UNCHANGED lockFile
        ELSE /\ lockFile' = writeLock([slot |-> ticks[i].slot, timestamp |-> ticks[i].now])
             /\ ticks' = [ticks EXCEPT ![i].pc = "dispatched",
                                       ![i].writes = ticks[i].writes + 1]
  /\ UNCHANGED <<clock, env, lastReport, passes, requested, args, result, reportState>>

\* triggerReport, lines 56-63: GET has returned, fetch resolves with its response
\* and response.json() with its body (on a body that is no JSON it rejects and the
\* call ends in the catch block, as failed as on a status that is no success)
TickResponse(i) ==
  /\ ticks[i].pc = "awaiting"
  /\ passes[TickPass(i)].pc = "done"
  /\ LET response == Served(i)[1]
         json == response.body
     IN IF ~ResponseOk(response) \/ ~json.ok
        THEN /\ ticks' = [ticks EXCEPT ![i] = FailedTick(ticks[i])]
             /\ UNCHANGED lockFile
        ELSE /\ lockFile' = writeLock([slot |-> ticks[i].slot, timestamp |-> ticks[i].now])
             /\ ticks' = [ticks EXCEPT ![i].pc = "dispatched",
                                       ![i].writes = ticks[i].writes + 1]
  /\ UNCHANGED <<clock, env, lastReport, passes, requested, args, result, reportState>>

\* TickThrow with the slip of recording the run in the catch block as well
TickThrow_WritesLock(i, cause) ==
  /\ ticks[i].pc = "awaiting"
  /\ cause \in {"fetch rejected", "body not JSON"}
  /\ lockFile' = writeLock([slot |-> ticks[i].slot, timestamp |-> ticks[i].now])
  /\ ticks' = [ticks EXCEPT ![i] = FailedTick(ticks[i])]
  /\ UNCHANGED <<clock, env, lastReport, passes, requested, args, result, reportState>>

\* TickThrow sending the dispatch request once more before giving up
TickThrow_Retries(i, cause) ==
  /\ ticks[i].pc = "awaiting"
  /\ cause \in {"fetch rejected", "body not JSON"}
  /\ ticks' = [ticks EXCEPT ![i] =
       IF ticks[i].requests < 2
       THEN [ticks[i] EXCEPT !.requests = @ + 1, !.inFlight = TRUE]
       ELSE FailedTick(ticks[i])]
  /\ UNCHANGED <<clock, env, lastReport, passes, lockFile, requested, args, result, reportState>>

\* triggerReport, lines 64-66: fetch rejects (the connection fails before or after
\* the server has served the request), or response.json() rejects on a body that
\* is not JSON (an answer of something between the scheduler and the route); both
\* land in the catch block
TickThrow(i, cause) ==
  /\ ticks[i].pc = "awaiting"
  /\ cause \in {"fetch rejected", "body not JSON"}
  /\ ticks' = [ticks EXCEPT ![i] = FailedTick(ticks[i])]
  /\ UNCHANGED <<clock, env, lastReport, passes, lockFile, requested, args, result, reportState>>

\* time passes, to the next instant
Advance ==
  /\ \E k \in 0..(MaxClock - 1) : clock = Instant(k) /\ clock' = Instant(k + 1)
  /\ UNCHANGED <<env, lastReport, passes, lockFile, ticks, requested, args, result, reportState>>

\* ------------------------------------------------------------ report route
\* Two clients call the route; their requests may overlap.
PassIds == {"p1", "p2"}

\* the query of a request: ?slot=..., ?preview=1, or neither
Requests ==
  {[slot |-> Undefined, preview |-> FALSE],
   [slot |-> Some("am"), preview |-> FALSE],
   [slot |-> Some("pm"), preview |-> FALSE],
   [slot |-> Undefined, preview |-> TRUE]}

\* the answers an endpoint can give to the call a send makes (none when it makes none)
AnswersTo(requests, responses) == IF requests = 0 THEN {NoCall} ELSE responses

\* GET is called
Request(p, req) ==
  /\ passes[p].pc = "free"
  /\ requested < MaxRequests
  /\ requested' = requested + 1
  /\ passes' = [passes EXCEPT ![p] = GetStart(req, clock, env, lastReport)]
  /\ UNCHANGED <<clock, env, lastReport, lockFile, ticks, args, result, reportState>>

\* VesselReturns fetching again when the vessel fetch fails
VesselReturns_Retries(p, resp) ==
  /\ passes[p].pc = "vessel"
  /\ passes' = [passes EXCEPT ![p] =
       IF fetchJson(resp, "/api/vessel").threw
       THEN [passes[p] EXCEPT !.vesselAnswer = resp]
       ELSE GetVessel(passes[p], resp)]
  /\ UNCHANGED <<clock, env, lastReport, lockFile, ticks, requested, args, result, reportState>>

VesselReturns(p, resp) ==
  /\ passes[p].pc = "vessel"
  /\ passes' = [passes EXCEPT ![p] = GetVessel(passes[p], resp)]
  /\ UNCHANGED <<clock, env, lastReport, lockFile, ticks, requested, args, result, reportState>>

MarineReturns(p, resp) ==
  /\ passes[p].pc = "marine"
  /\ passes' = [passes EXCEPT ![p] = GetMarine(passes[p], resp)]
  /\ UNCHANGED <<clock, env, lastReport, lockFile, ticks, requested, args, result, reportState>>

BriefingReturns(p, resp) ==
  /\ passes[p].pc = "briefing"
  /\ passes' = [passes EXCEPT ![p] = GetBriefing(passes[p], resp)]
  /\ UNCHANGED <<clock, env, lastReport, lockFile, ticks, requested, args, result, reportState>>

SlackReturns(p, resp) ==
  /\ passes[p].pc = "slack"
  /\ resp \in AnswersTo(sendSlackRequests(SlackOptions(passes[p]), env), SlackResponses)
  /\ passes' = [passes EXCEPT ![p] = GetSlack(passes[p], resp, env)]
  /\ UNCHANGED <<clock, env, lastReport, lockFile, ticks, requested, args, result, reportState>>

\* EmailReturns storing the new record under the slot of the record it replaces
EmailReturns_KeepsOldSlot(p, resp) ==
  /\ passes[p].pc = "email"
  /\ resp \in AnswersTo(sendEmailRequests(EmailOptions(passes[p]), env), EmailResponses)
  /\ passes' = [passes EXCEPT ![p] = GetEmail(passes[p], resp, env)]
  /\ lastReport' = Some([GetEmailMeta(passes[p], resp, env) EXCEPT
                           !.slot = IF lastReport = Undefined THEN @ ELSE lastReport[1].slot])
  /\ UNCHANGED <<clock, env, lockFile, ticks, requested, args, result, reportState>>

EmailReturns(p, resp) ==
  /\ passes[p].pc = "email"
  /\ resp \in AnswersTo(sendEmailRequests(EmailOptions(passes[p]), env), EmailResponses)
  /\ passes' = [passes EXCEPT ![p] = GetEmail(passes[p], resp, env)]
  /\ lastReport' = Some(GetEmailMeta(passes[p], resp, env))
  /\ UNCHANGED <<clock, env, lockFile, ticks, requested, args, result, reportState>>

\* the client has read the response; the request id is free again
Collect(p) ==
  /\ passes[p].pc = "done"
  /\ passes' = [passes EXCEPT ![p] = FreePass]
  /\ UNCHANGED <<clock, env, lastReport, lockFile, ticks, requested, args, result, reportState>>

\* the server is reconfigured while it serves no request
SetEnv(e) ==
  /\ \A p \in PassIds : passes[p].pc \in {"free", "done"}
  /\ e # env
  /\ env' = e
  /\ UNCHANGED <<clock, lastReport, passes, lockFile, ticks, requested, args, result, reportState>>

\* no exported function is being called directly
NoArgs == [fn |-> "none"]

\* report-state.ts, line 12: let lastReport = null.  calls and returned are no
\* variables of the code: they keep the calls made on the module so far and what
\* the last getLastReport returned, for the properties.
EmptyStore == [lastReport |-> Undefined, calls |-> <<>>, returned |-> <<>>]

\* The state after the modules are loaded.  The clock is at the instant the
\* clients call the route or at the one the cron jobs are due; the lock file is
\* absent, unreadable, holds what the tick of another scheduler process wrote a
\* moment ago, or holds a record that is exactly one window old.
Init ==
  /\ clock \in {START, FIRST_FIRE}
  /\ env \in Envs
  /\ lastReport = Undefined
  /\ passes = [p \in PassIds \cup TickPassIds |-> FreePass]
  /\ lockFile \in {Undefined, Some(Garbage), Some([slot |-> "am", timestamp |-> FIRST_FIRE]),
                   Some(HeldLock)}
  /\ ticks = [i \in TickIds |-> IdleTick]
  /\ requested = 0
  /\ args = NoArgs
  /\ result = Undefined
  /\ reportState = EmptyStore

\* the ticks whose dispatch requests can overlap and fail in every way
SchedTicks == 2

NextSched ==
  \/ \E i \in 1..SchedTicks, slot \in Slots : TickStart(i, slot)
  \/ \E i \in 1..SchedTicks : TickArrives(i)
  \/ \E i \in 1..SchedTicks, resp \in DispatchVessel : VesselReturns(TickPass(i), resp)
  \/ \E i \in 1..SchedTicks, resp \in DispatchMarine : MarineReturns(TickPass(i), resp)
  \/ \E i \in 1..SchedTicks, resp \in DispatchBriefing : BriefingReturns(TickPass(i), resp)
  \/ \E i \in 1..SchedTicks, resp \in DispatchSlack : SlackReturns(TickPass(i), resp)
  \/ \E i \in 1..SchedTicks, resp \in DispatchEmail : EmailReturns(TickPass(i), resp)
  \/ \E i \in 1..SchedTicks : TickResponse(i)
  \/ \E i \in 1..SchedTicks, cause \in {"fetch rejected", "body not JSON"} : TickThrow(i, cause)
  \/ Advance

\* the scheduler against a fully configured server
InitSched ==
  /\ Init /\ clock = FIRST_FIRE /\ env = FullEnv
  /\ lockFile \in {Undefined, Some(Garbage), Some(HeldLock)}

SpecSched == InitSched /\ [][NextSched]_vars

\* Three ticks on a day on which every endpoint answers and every send goes
\* through: each dispatch request reaches the server and comes back with ok = true
NextWindow ==
  \/ \E i \in TickIds, slot \in Slots : TickStart(i, slot)
  \/ \E i \in TickIds : TickArrives(i)
  \/ \E i \in TickIds : VesselReturns(TickPass(i), Json(200, VesselPayload))
  \/ \E i \in TickIds : MarineReturns(TickPass(i), Json(200, FullSnapshot))
  \/ \E i \in TickIds : BriefingReturns(TickPass(i), Json(200, PaddedBriefingBody))
  \/ \E i \in TickIds : SlackReturns(TickPass(i), Status(200))
  \/ \E i \in TickIds : EmailReturns(TickPass(i), Status(200))
  \/ \E i \in TickIds : TickResponse(i)
  \/ Advance

\* no lock file yet
InitWindow == Init /\ clock = FIRST_FIRE /\ env = FullEnv /\ lockFile = Undefined

SpecWindow == InitWindow /\ [][NextWindow]_vars

NextReport ==
  \/ \E p \in PassIds, req \in Requests : Request(p, req)
  \/ \E p \in PassIds, resp \in VesselResponses : VesselReturns(p, resp)
  \/ \E p \in PassIds, resp \in MarineResponses : MarineReturns(p, resp)
  \/ \E p \in PassIds, resp \in BriefingResponses : BriefingReturns(p, resp)
  \/ \E p \in PassIds, resp \in SlackResponses \cup {NoCall} : SlackReturns(p, resp)
  \/ \E p \in PassIds, resp \in EmailResponses \cup {NoCall} : EmailReturns(p, resp)
  \/ \E p \in PassIds : Collect(p)
  \/ \E e \in Envs : SetEnv(e)

\* the report route, no scheduler running
InitReport == Init /\ clock = START /\ lockFile = Undefined

SpecReport == InitReport /\ [][NextReport]_vars

\* ================================================================ properties
\* ---------------------------------------------------------------- scheduler
\* tick i takes its first step (triggerReport is called) in this transition
Starts(i) == ticks[i].pc = "idle" /\ ticks'[i].pc # "idle"
\* a dispatch of slot that ended in success and started less than a window before t
DispatchedWithin(slot, t) ==
  \E j \in TickIds : /\ ticks[j].pc = "dispatched"
                     /\ ticks[j].slot = slot
                     /\ t - ticks[j].now < WINDOW_MS
\* would a tick for slot be skipped, given the lock file and the time
Suppressed(slot, file, t) == Skips(readLock(file), slot, t)
OtherSlot(slot) == IF slot = "am" THEN "pm" ELSE "am"

\* C1: once a tick for a slot has ended in a successful dispatch started at t, every
\* later tick for that slot that starts less than 5 minutes after t issues no
\* request and is skipped.
C1_Idempotency ==
  [][\A i \in TickIds :
       (Starts(i) /\ DispatchedWithin(ticks'[i].slot, clock))
         => (ticks'[i].pc = "skip" /\ ticks'[i].requests = 0)]_vars

\* C2: the guard is per slot: no step of a tick for one slot changes whether a tick
\* for the other slot would be skipped.
C2_SlotIndependence ==
  [][\A i \in TickIds :
       (ticks'[i] # ticks[i])
         => (Suppressed(OtherSlot(ticks'[i].slot), lockFile', clock')
               = Suppressed(OtherSlot(ticks'[i].slot), lockFile, clock))]_vars

\* C3: a tick whose dispatch fails (the request throws, the status is no success,
\* the body is no JSON, or ok is not true) writes nothing to the lock file; and a
\* tick for a slot that follows a failed tick for that slot issues the request,
\* unless a successful dispatch of the slot is still inside its window.
C3_RetryOnFailure ==
  [][\A i \in TickIds :
       /\ (ticks[i].pc = "awaiting" /\ ticks'[i].pc = "failed")
            => (lockFile' = lockFile /\ ticks'[i].writes = 0)
       /\ ( /\ Starts(i)
            /\ \E j \in TickIds : ticks[j].pc = "failed" /\ ticks[j].slot = ticks'[i].slot
            /\ ~DispatchedWithin(ticks'[i].slot, clock) )
            => (ticks'[i].pc = "awaiting" /\ ticks'[i].requests = 1)]_vars

\* C3 witness: a tick failed, the lock file is still unwritten, time has passed
\* by less than a window (another scheduler process runs its callback later), and a second tick for the same slot has issued its request
C3_Witness ==
  /\ ticks[1].pc = "failed"
  /\ ticks[2].pc = "awaiting" /\ ticks[2].slot = ticks[1].slot
  /\ ticks[2].now = Instant(1)
  /\ readLock(lockFile) = Undefined

\* the instants a window of 5 minutes can start at
WindowStarts == Instants

\* C4: at most one duplicate per window: of the dispatch requests for one slot that
\* ended in success, at most two started within any window of 5 minutes.
C4_AtMostOneDuplicate ==
  \A slot \in Slots, w \in WindowStarts :
    Cardinality({i \in TickIds : /\ ticks[i].pc = "dispatched"
                                 /\ ticks[i].slot = slot
                                 /\ ticks[i].now >= w
                                 /\ ticks[i].now < w + WINDOW_MS}) <= 2

\* ------------------------------------------------------------- report route
\* the endpoint answered with a success status and a JSON body
Succeeded(resp) ==
  resp.kind = "response" /\ resp.status \in 200..299 /\ resp.json # Undefined
\* the endpoint was called and did not answer so
Failed(resp) == resp.kind # "none" /\ ~Succeeded(resp)
\* pass p has returned after both mandatory fetches succeeded
Completed(p) ==
  /\ passes[p].pc = "done"
  /\ Succeeded(passes[p].vesselAnswer)
  /\ Succeeded(passes[p].briefingAnswer)
\* pass p has returned because a mandatory fetch failed
Aborted(p) ==
  /\ passes[p].pc = "done"
  /\ (Failed(passes[p].vesselAnswer) \/ Failed(passes[p].briefingAnswer))
Body(p) == passes[p].response[1].body
StatusOf(p) == passes[p].response[1].status

\* C5: in every pass that is not aborted, the top-level ok of the response is true
\* if and only if at least one entry of sent has ok = true.
C5_OverallOk ==
  \A p \in PassIds :
    Completed(p) =>
      (Body(p).ok = TRUE <=> \E i \in DOMAIN Body(p).sent : Body(p).sent[i].ok = TRUE)

\* C5 witness: one pass returned with Slack ok, email failed and ok = true, the
\* other with both sends failed and ok = false
C5_Witness ==
  /\ Completed("p1") /\ Completed("p2")
  /\ Body("p1").sent[1].ok /\ ~Body("p1").sent[2].ok /\ Body("p1").ok
  /\ ~Body("p2").sent[1].ok /\ ~Body("p2").sent[2].ok /\ ~Body("p2").ok

\* the shape of sent: a Slack result followed by an email result
TwoResults(sent) ==
  /\ Len(sent) = 2
  /\ sent[1].channel = "slack"
  /\ sent[2].channel = "email"
  /\ \A i \in 1..2 : sent[i].ok = FALSE => "error" \in DOMAIN sent[i]

\* C6: in every pass in which the vessel and briefing fetches succeed, sent holds
\* exactly two results, Slack's then the email's, whatever the outcome of each send;
\* the same holds for the sent of the response and of the stored record.
C6_TwoResults ==
  /\ \A p \in PassIds :
       Completed(p) => (TwoResults(passes[p].sent) /\ Body(p).sent = passes[p].sent)
  /\ lastReport # Undefined => TwoResults(lastReport[1].sent)

\* C6 witness: a pass returned whose Slack send met a non-2xx status and whose email
\* send met a transport exception, another whose sends both lacked configuration
C6_Witness ==
  /\ Completed("p1") /\ Completed("p2")
  /\ passes["p1"].slackAnswer = Status(500)
  /\ passes["p1"].emailAnswer = Thrown(NetError)
  /\ passes["p2"].slackAnswer = NoCall
  /\ passes["p2"].emailAnswer = NoCall
  /\ Len(passes["p1"].sent) = 2 /\ Len(passes["p2"].sent) = 2

\* C7: the email send is attempted whatever the Slack send's outcome (a pass at the
\* Slack send always moves on to the email send), and each channel's result depends
\* only on that channel's configuration and its endpoint's answer: two passes with
\* the same email configuration and answer have the same email result, however their
\* Slack sends went, and the same with the channels exchanged.
C7_ChannelIndependence ==
  /\ [](\A p, q \in PassIds :
          (Completed(p) /\ Completed(q)) =>
            /\ ( /\ passes[p].emailConfig = passes[q].emailConfig
                 /\ passes[p].emailAnswer = passes[q].emailAnswer )
                 => passes[p].sent[2] = passes[q].sent[2]
            /\ ( /\ passes[p].slackConfig = passes[q].slackConfig
                 /\ passes[p].slackAnswer = passes[q].slackAnswer )
                 => passes[p].sent[1] = passes[q].sent[1])
  /\ [][\A p \in PassIds :
          (passes[p].pc = "slack" /\ passes'[p] # passes[p])
            => passes'[p].pc = "email"]_vars

\* C7 witness: two passes returned, one after a failed Slack send and one after a
\* successful one, with the same email configuration and answer and a sent email
C7_Witness ==
  /\ Completed("p1") /\ Completed("p2")
  /\ ~passes["p1"].sent[1].ok /\ passes["p2"].sent[1].ok
  /\ passes["p1"].emailConfig = passes["p2"].emailConfig
  /\ passes["p1"].emailAnswer = Status(200) /\ passes["p2"].emailAnswer = Status(200)
  /\ passes["p1"].sent[2].ok /\ passes["p2"].sent[2].ok

\* C8: when the vessel fetch or the briefing fetch of a pass fails, the pass returns
\* at once with an error status and a body of ok = false and an error message and
\* nothing else (no record); and no step a pass takes up to and including the return
\* of the briefing fetch changes the stored last report.
C8_MandatoryAbort ==
  [][\A p \in PassIds :
       /\ ( \/ (passes[p].pc = "vessel" /\ Failed(passes'[p].vesselAnswer))
            \/ (passes[p].pc = "briefing" /\ Failed(passes'[p].briefingAnswer)) )
            => /\ passes'[p].pc = "done"
               /\ passes'[p].response[1].status \notin 200..299
               /\ passes'[p].response[1].body.ok = FALSE
               /\ DOMAIN passes'[p].response[1].body = {"ok", "error"}
               /\ passes'[p].sent = <<>>
               /\ lastReport' = lastReport
       /\ (passes[p].pc \in {"free", "vessel", "marine", "briefing"} /\ passes'[p] # passes[p])
            => lastReport' = lastReport]_vars

\* C8 witness: a record is stored, and a pass has returned 502 after its briefing
\* fetch failed, the record still being the one stored before
C8_Witness ==
  /\ lastReport # Undefined
  /\ passes["p1"].pc = "free"
  /\ Aborted("p2") /\ Failed(passes["p2"].briefingAnswer)
  /\ StatusOf("p2") = 502
  /\ lastReport[1].sent[1].ok

\* the marine fetch of pass p failed
MarineFailed(p) == Failed(passes[p].marineAnswer)
LastLine(text) == text[Len(text)]

\* C9: a failed marine fetch does not end the pass (it moves on to the briefing
\* fetch); a pass completed after one has the no-data line as the last line of its
\* text, two results in sent and status 200; the step that completes it stores its
\* record; and its ok and status equal those of a pass with a successful marine fetch
\* and the same channel results.
C9_GracefulDegradation ==
  /\ [][\A p \in PassIds :
          /\ (passes[p].pc = "marine" /\ passes'[p] # passes[p])
               => passes'[p].pc = "briefing"
          /\ (passes[p].pc = "email" /\ passes'[p] # passes[p] /\ Failed(passes[p].marineAnswer))
               => /\ lastReport' # Undefined
                  /\ lastReport'[1].sample = passes'[p].sample
                  /\ lastReport'[1].sent = passes'[p].sent
                  /\ lastReport'[1].slot = passes'[p].slot[1]]_vars
  /\ [](\A p \in PassIds :
          (Completed(p) /\ MarineFailed(p)) =>
             /\ LastLine(passes[p].sample) = NoMarineLine
             /\ LastLine(Body(p).sample) = NoMarineLine
             /\ Len(passes[p].sent) = 2
             /\ StatusOf(p) = 200
             /\ \A q \in PassIds :
                  (Completed(q) /\ ~MarineFailed(q) /\ passes[q].sent = passes[p].sent)
                    => (StatusOf(q) = StatusOf(p) /\ Body(q).ok = Body(p).ok))

\* C9 witness: a pass whose marine fetch failed has completed with an email sent and
\* its record stored, beside a pass with a marine snapshot and the same results
C9_Witness ==
  /\ Completed("p1") /\ MarineFailed("p1")
  /\ Completed("p2") /\ ~MarineFailed("p2")
  /\ passes["p1"].sent = passes["p2"].sent
  /\ ~passes["p1"].sent[1].ok /\ passes["p1"].sent[2].ok
  /\ LastLine(passes["p2"].sample) # NoMarineLine
  /\ lastReport # Undefined /\ lastReport[1].sample = passes["p1"].sample

\* C10: the response of a request has an error status if and only if its vessel or
\* briefing fetch failed; every other request, preview included, is answered 200 with
\* a body that carries ok, slot, generatedAt, timezone, sample and sent.
C10_ErrorStatusIffMandatoryFailed ==
  \A p \in PassIds :
    passes[p].pc = "done" =>
      /\ (StatusOf(p) \notin 200..299) <=> Aborted(p)
      /\ ~Aborted(p) =>
           /\ StatusOf(p) = 200
           /\ {"ok", "slot", "generatedAt", "timezone", "sample", "sent"} \subseteq DOMAIN Body(p)

\* the pass ended at line 161: its vessel fetch succeeded, no usable slot came
\* with the request, and inferSlot threw on the configured timezone
SlotThrew(p) ==
  /\ passes[p].pc = "done" /\ ~passes[p].preview
  /\ Succeeded(passes[p].vesselAnswer)
  /\ passes[p].slot = Undefined

\* C10 but for a timezone that is no zone: the response has an error status if and
\* only if the vessel or briefing fetch failed or the slot could not be inferred;
\* every other request is answered 200 with the structured body.
C10_ErrorStatusIffMandatoryFailedOrSlotThrew ==
  \A p \in PassIds :
    passes[p].pc = "done" =>
      /\ (StatusOf(p) \notin 200..299) <=> (Aborted(p) \/ SlotThrew(p))
      /\ SlotThrew(p) <=> ( /\ ~passes[p].preview /\ Succeeded(passes[p].vesselAnswer)
                            /\ passes[p].slotParam \notin {Some("am"), Some("pm")}
                            /\ passes[p].timezone \notin IntlZones )
      /\ ~(Aborted(p) \/ SlotThrew(p)) =>
           /\ StatusOf(p) = 200
           /\ {"ok", "slot", "generatedAt", "timezone", "sample", "sent"} \subseteq DOMAIN Body(p)

\* C10 witness: a pass has returned 200 with ok = false and two failures in sent,
\* neither channel being configured
C10_Witness ==
  /\ Completed("p1")
  /\ StatusOf("p1") = 200 /\ Body("p1").ok = FALSE
  /\ Body("p1").sent = <<[channel |-> "slack", ok |-> FALSE, error |-> "Missing Slack webhook URL"],
                         [channel |-> "email", ok |-> FALSE, error |-> "Missing email recipients"]>>

\* ----------------------------------------------------------------- preview
\* the awaits of a pass: at each of them one request is in flight
Awaits == {"vessel", "marine", "briefing", "slack", "email"}

\* C11: a request with the preview flag returns in the step that serves it: it is at
\* no await (no upstream fetch, no channel send is ever in flight for it), it has
\* received no answer and built no sent, and the step leaves the stored last report
\* and the other pass as they were, whether or not a report is stored.
C11_PreviewSideEffectFree ==
  [][\A p \in PassIds :
       (passes[p].pc = "free" /\ passes'[p].pc # "free" /\ passes'[p].preview)
         => /\ passes'[p].pc = "done"
            /\ passes'[p].vesselAnswer = NoCall /\ passes'[p].marineAnswer = NoCall
            /\ passes'[p].briefingAnswer = NoCall
            /\ passes'[p].slackAnswer = NoCall /\ passes'[p].emailAnswer = NoCall
            /\ passes'[p].sent = <<>>
            /\ lastReport' = lastReport
            /\ \A q \in PassIds \ {p} : passes'[q] = passes[q]
            /\ lockFile' = lockFile /\ env' = env]_vars

\* C11 witness: a preview has been answered from the report a completed pass stored
C11_Witness ==
  /\ lastReport # Undefined
  /\ passes["p2"].pc = "done" /\ passes["p2"].preview
  /\ passes["p1"].pc = "done" /\ ~passes["p1"].preview
  /\ passes["p2"].response[1].body.sent = lastReport[1].sent

\* the step completes pass p: its email send returns
Completes(p) == passes[p].pc = "email" /\ passes'[p].pc = "done"
\* the step serves a preview request as pass p
ServesPreview(p) == passes[p].pc = "free" /\ passes'[p].pc # "free" /\ passes'[p].preview
\* the record of a pass that has completed, as its response gives it
RecordOf(pass) ==
  [slot |-> pass.response[1].body.slot, generatedAt |-> pass.response[1].body.generatedAt,
   timezone |-> pass.response[1].body.timezone, sample |-> pass.response[1].body.sample,
   sent |-> pass.response[1].body.sent]
\* a preview body carries slot, generatedAt, sample, sent and ok of the record last,
\* or absent values when there is none
CarriesRecord(body, last) ==
  IF last = Undefined
  THEN /\ body.slot = Undefined /\ body.generatedAt = Undefined /\ body.sample = Undefined
       /\ body.sent = <<>> /\ body.ok = FALSE
  ELSE /\ body.slot = Some(last[1].slot) /\ body.generatedAt = Some(last[1].generatedAt)
       /\ body.sample = Some(last[1].sample)
       /\ body.sent = last[1].sent
       /\ body.ok = (\E i \in DOMAIN last[1].sent : last[1].sent[i].ok)
\* the stored report is the record of the pass that completed last
KeepsLastCompleted ==
  /\ \A p \in PassIds : Completes(p) => lastReport' = Some(RecordOf(passes'[p]))
  /\ (\A p \in PassIds : ~Completes(p)) => lastReport' = lastReport

\* C12: the stored report is always the record of the most recent pass that was not
\* aborted, and a preview response carries its slot, generatedAt, timezone, sample,
\* sent and ok; with no pass completed it carries absent values, no sent and ok false.
C12_PreviewReturnsLast ==
  [][/\ KeepsLastCompleted
     /\ \A p \in PassIds :
          ServesPreview(p) =>
            /\ CarriesRecord(passes'[p].response[1].body, lastReport)
            /\ lastReport # Undefined
                 => passes'[p].response[1].body.timezone = lastReport[1].timezone]_vars

\* C12 without the timezone: what the preview response does carry of the record
C12_PreviewReturnsLastButTimezone ==
  [][/\ KeepsLastCompleted
     /\ \A p \in PassIds :
          ServesPreview(p) => CarriesRecord(passes'[p].response[1].body, lastReport)]_vars

\* ============================================== direct calls of the notifier
\* The program at rest: no request, no tick, nothing stored.
AtRest ==
  /\ clock = START
  /\ lastReport = Undefined
  /\ passes = [p \in PassIds \cup TickPassIds |-> FreePass]
  /\ lockFile = Undefined
  /\ ticks = [i \in TickIds |-> IdleTick]
  /\ requested = 0
  /\ reportState = EmptyStore

\* process.env as the notifier reads it: each variable unset, empty or set
NotifyEnvs ==
  [SLACK_WEBHOOK_URL : {Undefined, Some(""), Some("https://hooks.slack.com/services/env")},
   RESEND_API_KEY : {Undefined, Some(""), Some("test")},
   REPORT_SENDER : {Undefined, Some("no-reply@example.com")},
   REPORT_RECIPIENTS : {Undefined, Some(<<>>), Some(<<" ", ",">>),
                        Some(<<"\t", ",", "\\u00A0", "\n">>),
                        Some(<<"a", ",", "\t", "b", "\r", "\n">>)},
   REPORT_TIMEZONE : {Undefined}]

\* the options of a call: each optional field absent, empty or given
SlackOptionSet ==
  [message : {"Hello"},
   webhookUrl : {Undefined, Some(""), Some("https://hooks.slack.com/services/arg")}]
EmailOptionSet ==
  [subject : {"Subject"}, text : {<<"Body">>},
   to : {Undefined, Some(<<>>), Some(<< <<" ", "\t">>, <<"\n", "\\u3000">> >>),
         Some(<< <<"\t", "o", "p", "s", "\n">> >>)},
   from : {Undefined, Some(""), Some("sender@example.com")},
   apiKey : {Undefined, Some("key")}]

\* what fetchImpl does when it is called: a 2xx with or without a body, a non-2xx,
\* or a rejection with an Error (with or without a message) or with another value
FetchBehaviours ==
  {Status(200), Status(204), Json(200, [id |-> "email_1"]), Status(401), Status(500),
   Thrown(NetError), Thrown(EmptyError), Thrown(NonError)}

NotifyCalls ==
  [fn : {"sendSlack"}, options : SlackOptionSet, fetchImpl : FetchBehaviours]
    \cup [fn : {"sendEmail"}, options : EmailOptionSet, fetchImpl : FetchBehaviours]

\* sendSlack(options) is called and returns
CallSendSlack ==
  /\ args.fn = "sendSlack" /\ result = Undefined
  /\ result' = Some([value |-> sendSlack(args.options, env, args.fetchImpl),
                     requests |-> sendSlackRequests(args.options, env)])
  /\ UNCHANGED <<clock, env, lastReport, passes, lockFile, ticks, requested, args, reportState>>

\* sendEmail(options) is called and returns
CallSendEmail ==
  /\ args.fn = "sendEmail" /\ result = Undefined
  /\ result' = Some([value |-> sendEmail(args.options, env, args.fetchImpl),
                     requests |-> sendEmailRequests(args.options, env)])
  /\ UNCHANGED <<clock, env, lastReport, passes, lockFile, ticks, requested, args, reportState>>

InitNotify ==
  /\ AtRest
  /\ env \in NotifyEnvs
  /\ args \in NotifyCalls
  /\ result = Undefined

NextNotify == CallSendSlack \/ CallSendEmail

SpecNotify == InitNotify /\ [][NextNotify]_vars

\* ----------------------------------------------------------------- notifier
\* the call has returned
Returned(fn) == args.fn = fn /\ result # Undefined

\* C13: every result sendSlack and sendEmail return is fully filled: ok = false comes
\* with a non-empty error, ok = true with no error, for every configuration and every
\* behaviour of the endpoint (2xx, non-2xx, a thrown value with or without a message).
C13_ResultFullyFilled ==
  (Returned("sendSlack") \/ Returned("sendEmail")) =>
    LET r == result[1].value IN
      /\ r.channel = (IF args.fn = "sendSlack" THEN "slack" ELSE "email")
      /\ r.ok = FALSE => ("error" \in DOMAIN r /\ r.error # "")
      /\ r.ok = TRUE => "error" \notin DOMAIN r

\* the value a call uses for an optional field: the argument when one is given,
\* else the environment variable
Chosen(explicit, configured) == IF explicit # Undefined THEN explicit ELSE configured
Unresolved(explicit, configured) == Chosen(explicit, configured) \in {Undefined, Some("")}
Blank(s) == \A i \in 1..Len(s) : s[i] \in WhiteSpace \cup LineTerminator
\* no recipient is left once the entries are trimmed and the empty ones dropped
NoRecipients ==
  IF args.options.to # Undefined
  THEN \A i \in 1..Len(args.options.to[1]) : Blank(args.options.to[1][i])
  ELSE IF env.REPORT_RECIPIENTS = Undefined THEN TRUE
  ELSE Blank(SelectSeq(env.REPORT_RECIPIENTS[1], LAMBDA ch : ch # ","))
NoApiKey == Unresolved(args.options.apiKey, env.RESEND_API_KEY)
NoSender == Unresolved(args.options.from, env.REPORT_SENDER)
Refused(error) ==
  /\ result[1].value = [channel |-> "email", ok |-> FALSE, error |-> error]
  /\ result[1].requests = 0

\* C14: sendEmail checks recipients, then credential, then sender: the error is that of
\* the first of the three that is missing, in this order, no request is issued when
\* any is missing, and one request is issued when none is.
C14_ValidationOrder ==
  Returned("sendEmail") =>
    /\ NoRecipients => Refused("Missing email recipients")
    /\ (~NoRecipients /\ NoApiKey) => Refused("Missing Resend API key")
    /\ (~NoRecipients /\ ~NoApiKey /\ NoSender) => Refused("Missing report sender address")
    /\ (~NoRecipients /\ ~NoApiKey /\ ~NoSender) => result[1].requests = 1

\* C14 witness: sendEmail has returned with recipients that are blank after trimming,
\* no credential and no sender, reporting the recipients
C14_Witness ==
  /\ Returned("sendEmail")
  /\ args.options.to = Undefined /\ env.REPORT_RECIPIENTS = Some(<<" ", ",">>)
  /\ NoApiKey /\ NoSender
  /\ result[1].value.error = "Missing email recipients"
  /\ result[1].requests = 0

IsUrl(v) == v # Undefined /\ v[1] # ""
Is2xx(resp) == resp.kind = "response" /\ resp.status \in 200..299

\* C15: when neither the argument nor the environment yields a URL, sendSlack returns
\* the missing-webhook failure and issues no request; otherwise it issues exactly one
\* request, returns ok = true for any 2xx status whatever the body, and ok = false with
\* the status code in the error for any other status.
C15_SlackResolution ==
  Returned("sendSlack") =>
    IF ~IsUrl(args.options.webhookUrl) /\ ~IsUrl(env.SLACK_WEBHOOK_URL)
    THEN /\ result[1].value = [channel |-> "slack", ok |-> FALSE,
                               error |-> "Missing Slack webhook URL"]
         /\ result[1].requests = 0
    ELSE /\ result[1].requests = 1
         /\ Is2xx(args.fetchImpl) => result[1].value = [channel |-> "slack", ok |-> TRUE]
         /\ (args.fetchImpl.kind = "response" /\ ~Is2xx(args.fetchImpl))
              => result[1].value = [channel |-> "slack", ok |-> FALSE,
                                    error |-> "Slack webhook responded "
                                                \o ToString(args.fetchImpl.status)]

\* C15 with the destination taken from the argument whenever one is given, empty or
\* not, and from the environment only when none is given
C15_SlackResolutionArgumentFirst ==
  Returned("sendSlack") =>
    IF Unresolved(args.options.webhookUrl, env.SLACK_WEBHOOK_URL)
    THEN /\ result[1].value = [channel |-> "slack", ok |-> FALSE,
                               error |-> "Missing Slack webhook URL"]
         /\ result[1].requests = 0
    ELSE /\ result[1].requests = 1
         /\ Is2xx(args.fetchImpl) => result[1].value = [channel |-> "slack", ok |-> TRUE]
         /\ (args.fetchImpl.kind = "response" /\ ~Is2xx(args.fetchImpl))
              => result[1].value = [channel |-> "slack", ok |-> FALSE,
                                    error |-> "Slack webhook responded "
                                                \o ToString(args.fetchImpl.status)]

\* =============================================================== risk scorer
\* lib/ioi: numbers are in hundredths, as in Num(c); the three values below are the
\* numbers that are not finite
NaN == [fin |-> FALSE, kind |-> "NaN"]
PosInf == [fin |-> FALSE, kind |-> "+Infinity"]
NegInf == [fin |-> FALSE, kind |-> "-Infinity"]
isNaN(v) == v = NaN

\* the thresholds, in hundredths
HS_CAUTION == 150
HS_NOGO == 250
WIND_CAUTION == 1800
WIND_NOGO == 2800
SWELL_MIN == 600
SWELL_MAX == 1200

\* v <= c and v >= c for a number v that is not NaN and a finite c
LessEq(v, c) == IF v.fin THEN v.c <= c ELSE v = NegInf
GreaterEq(v, c) == IF v.fin THEN v.c >= c ELSE v = PosInf

\* ------------------------------------------------ the arithmetic of doubles
\* The scores are JavaScript numbers, IEEE 754 doubles; each operation of lines
\* 29-44 returns the double nearest to the exact result, ties to the even
\* significand.
\* A whole number >= 0 of any size is the sequence of its digits to the base
\* Radix, the lowest first and the highest not 0; 0 is <<>>.
Radix == 32768
RadixBits == 15
\* the bits of the significand of a double
PRECISION == 53

Low(a) == IF a = <<>> THEN 0 ELSE Head(a)
Rest(a) == IF a = <<>> THEN <<>> ELSE Tail(a)
\* the number with lowest digit low and the other digits high
Cons(low, high) == IF low = 0 /\ high = <<>> THEN <<>> ELSE <<low>> \o high

RECURSIVE Whole(_)
\* the whole number n
Whole(n) == IF n = 0 THEN <<>> ELSE Cons(n % Radix, Whole(n \div Radix))
RECURSIVE Value(_)
Value(a) == IF a = <<>> THEN 0 ELSE Head(a) + Radix * Value(Tail(a))

RECURSIVE Plus(_, _, _)
\* a + b + carry
Plus(a, b, carry) ==
  IF a = <<>> /\ b = <<>> THEN Whole(carry)
  ELSE LET x == Low(a) + Low(b) + carry
       IN Cons(x % Radix, Plus(Rest(a), Rest(b), x \div Radix))

RECURSIVE Minus(_, _, _)
\* a - b - borrow, for a >= b + borrow
Minus(a, b, borrow) ==
  IF a = <<>> THEN <<>>
  ELSE LET x == Low(a) - Low(b) - borrow
       IN Cons(IF x < 0 THEN x + Radix ELSE x,
               Minus(Rest(a), Rest(b), IF x < 0 THEN 1 ELSE 0))

RECURSIVE TimesDigit(_, _, _)
\* a * k + carry, for k and carry below Radix
TimesDigit(a, k, carry) ==
  IF a = <<>> THEN Whole(carry)
  ELSE LET x == Head(a) * k + carry
       IN Cons(x % Radix, TimesDigit(Tail(a), k, x \div Radix))

RECURSIVE Times(_, _)
\* a * b
Times(a, b) ==
  IF b = <<>> THEN <<>>
  ELSE Plus(TimesDigit(a, Head(b), 0), Cons(0, Times(a, Tail(b))), 0)

RECURSIVE DivMod(_, _)
\* quotient and remainder of a by d, for 0 < d <= Radix
DivMod(a, d) ==
  IF a = <<>> THEN [q |-> <<>>, r |-> 0]
  ELSE LET high == DivMod(Tail(a), d)
           x == high.r * Radix + Head(a)
       IN [q |-> Cons(x \div d, high.q), r |-> x % d]

RECURSIVE Bits(_)
\* the number of bits of n
Bits(n) == IF n = 0 THEN 0 ELSE 1 + Bits(n \div 2)
BitLength(a) == IF a = <<>> THEN 0 ELSE RadixBits * (Len(a) - 1) + Bits(a[Len(a)])

\* a * 2^k
ShiftLeft(a, k) ==
  LET scaled == TimesDigit(a, 2 ^ (k % RadixBits), 0)
  IN IF scaled = <<>> THEN <<>> ELSE [j \in 1..(k \div RadixBits) |-> 0] \o scaled
\* a \div 2^k, and whether a bit that is set was shifted out
ShiftRight(a, k) ==
  LET n == IF k \div RadixBits < Len(a) THEN k \div RadixBits ELSE Len(a)
      high == DivMod(SubSeq(a, n + 1, Len(a)), 2 ^ (k % RadixBits))
  IN [q |-> high.q, lost |-> high.r # 0 \/ \E j \in 1..n : a[j] # 0]

\* A double >= 0 is [m, e], for m * 2^e with 2^52 <= m < 2^53; 0 is Zero.  (The
\* scores stay far from the subnormal numbers and from overflow.)
Zero == [m |-> <<>>, e |-> 0]

\* the step that takes the even neighbour on a tie: quotient is the first
\* PRECISION + 1 bits of the exact result, inexact says that more bits follow
Nearest(quotient, inexact, e) ==
  LET half == Low(quotient) % 2 = 1
      m == DivMod(quotient, 2).q
      up == half /\ (inexact \/ Low(m) % 2 = 1)
      rounded == IF up THEN Plus(m, <<>>, 1) ELSE m
  IN IF BitLength(rounded) > PRECISION
     THEN [m |-> DivMod(rounded, 2).q, e |-> e + 2]
     ELSE [m |-> rounded, e |-> e + 1]
\* the quotient of n * 2^s by d, cut to PRECISION + 1 bits, then rounded
Cut(dm, e) ==
  LET k == BitLength(dm.q) - (PRECISION + 1)
      cut == ShiftRight(dm.q, k)
  IN Nearest(cut.q, cut.lost \/ dm.r # 0, e + k)
\* the double nearest to (n / d) * 2^e, for a whole number n and 0 < d <= Radix
Round(n, d, e) ==
  IF n = <<>> THEN Zero
  ELSE LET need == PRECISION + 1 + Bits(d) - BitLength(n)
           s == IF need > 0 THEN need ELSE 0
       IN Cut(DivMod(ShiftLeft(n, s), d), e - s)

\* the double of a literal or of a parsed value: the one nearest to n / d
Double(n, d) == Round(Whole(n), d, 0)
\* a and b as whole numbers of 2^e, for the lower exponent e of the two
Aligned(a, b) ==
  LET e == IF a.e < b.e THEN a.e ELSE b.e
  IN [a |-> ShiftLeft(a.m, a.e - e), b |-> ShiftLeft(b.m, b.e - e), e |-> e]
\* a + b
FAdd(a, b) ==
  IF a = Zero THEN b ELSE IF b = Zero THEN a
  ELSE LET x == Aligned(a, b) IN Round(Plus(x.a, x.b, 0), 1, x.e)
\* a - b, for a >= b
FSub(a, b) ==
  IF b = Zero THEN a
  ELSE LET x == Aligned(a, b) IN Round(Minus(x.a, x.b, 0), 1, x.e)
\* a * b
FMul(a, b) == Round(Times(a.m, b.m), 1, a.e + b.e)
\* a / k, for a whole number k that is a double
FDiv(a, k) == Round(a.m, k, a.e)
\* Math.round(a): the integer nearest to a, the upper one on a tie
MathRound(a) ==
  IF a = Zero THEN 0
  ELSE IF a.e >= 0 THEN Value(ShiftLeft(a.m, a.e))
  ELSE Value(ShiftRight(Plus(a.m, ShiftLeft(<<1>>, (0 - a.e) - 1), 0), 0 - a.e).q)

\* lines 22-38: the score of a wave height or a wind speed (value is x ?? null);
\* the thresholds are whole or half numbers, so they are doubles, and so is the
\* whole number nogo - caution
LinearScore(value, caution, nogo) ==
  IF value = Undefined \/ isNaN(value[1]) THEN Double(1, 2)
  ELSE IF LessEq(value[1], caution) THEN Double(1, 1)
  ELSE IF GreaterEq(value[1], nogo) THEN Zero
  ELSE FSub(Double(1, 1),
            FDiv(FSub(Double(value[1].c, 100), Double(caution, 100)),
                 (nogo - caution) \div 100))
hsScore(hs) == LinearScore(hs, HS_CAUTION, HS_NOGO)
windScore(wind) == LinearScore(wind, WIND_CAUTION, WIND_NOGO)

\* Math.max and Math.min with a finite first argument: NaN if the other is NaN
MathMax(c, v) == IF isNaN(v) THEN NaN ELSE IF GreaterEq(v, c) THEN v ELSE Num(c)
MathMin(c, v) == IF isNaN(v) THEN NaN ELSE IF LessEq(v, c) THEN v ELSE Num(c)

\* boundedPeriod treating a missing period as 6 s
boundedPeriod_DefaultsToMin(period) ==
  MathMin(SWELL_MAX, MathMax(SWELL_MIN, Coalesce(period, Some(Num(SWELL_MIN)))[1]))

\* line 40: Math.min(SWELL_MAX, Math.max(SWELL_MIN, period ?? 8))
boundedPeriod(period) ==
  MathMin(SWELL_MAX, MathMax(SWELL_MIN, Coalesce(period, Some(Num(800)))[1]))
\* line 41, for a bounded period that is a number
swellScore(bounded) ==
  FDiv(FSub(Double(bounded.c, 100), Double(SWELL_MIN, 100)),
       (SWELL_MAX - SWELL_MIN) \div 100)

\* line 43: 0.5 * hsScore + 0.35 * windScore + 0.15 * swellScore, summed from the
\* left; 0.35 and 0.15 are the doubles nearest to them
combined(hs, wind, swell) ==
  FAdd(FAdd(FMul(Double(1, 2), hs), FMul(Double(35, 100), wind)),
       FMul(Double(15, 100), swell))

\* computeIoiFromMarine(snapshot): the index, a number
computeIoiFromMarine(snapshot) ==
  LET bounded == boundedPeriod(snapshot.swellPeriod) IN
  IF isNaN(bounded) THEN NaN
  ELSE LET ioi == MathRound(FMul(combined(hsScore(snapshot.hs),
                                          windScore(snapshot.windKt),
                                          swellScore(bounded)),
                                 Double(100, 1)))
           capped == IF ioi > 100 THEN 100 ELSE ioi
       IN Num(100 * (IF capped < 0 THEN 0 ELSE capped))

\* the values a field of a snapshot can have: absent or null, NaN, an infinity,
\* negative, around the thresholds, very large
HsValues ==
  {Undefined, Some(NaN), Some(NegInf), Some(PosInf)}
    \cup {Some(Num(c)) : c \in {-100, 120, 150, 200, 250, 100000}}
WindValues ==
  {Undefined, Some(NaN), Some(NegInf), Some(PosInf)}
    \cup {Some(Num(c)) : c \in {-500, 1540, 1800, 2300, 2800, 1000000}}
PeriodValues ==
  {Undefined, Some(NaN), Some(NegInf), Some(PosInf)}
    \cup {Some(Num(c)) : c \in {-100, 600, 810, 1120, 1200, 1000000}}
ScoreCalls ==
  [fn : {"computeIoiFromMarine"},
   snapshot : [hs : HsValues, windKt : WindValues, swellPeriod : PeriodValues]]

\* computeIoiFromMarine(snapshot) is called and returns
CallComputeIoi ==
  /\ args.fn = "computeIoiFromMarine" /\ result = Undefined
  /\ result' = Some([value |-> computeIoiFromMarine(args.snapshot)])
  /\ UNCHANGED <<clock, env, lastReport, passes, lockFile, ticks, requested, args, reportState>>

InitScore ==
  /\ AtRest
  /\ env = FullEnv
  /\ args \in ScoreCalls
  /\ result = Undefined

NextScore == CallComputeIoi

SpecScore == InitScore /\ [][NextScore]_vars

\* --------------------------------------------------------------- risk scorer
\* a number that is an integer in 0..100
IsIndex(v) == v.fin /\ v.c % 100 = 0 /\ v.c >= 0 /\ v.c <= 100 * 100

\* C16: for every snapshot, each field absent or null, NaN, infinite, negative or
\* very large, computeIoiFromMarine returns an integer in [0,100].
C16_ScoreTotal ==
  Returned("computeIoiFromMarine") => IsIndex(result[1].value)

\* C16 for the snapshots whose swell period is not NaN
C16_ScoreTotalButNaNPeriod ==
  (Returned("computeIoiFromMarine") /\ args.snapshot.swellPeriod # Some(NaN))
    => IsIndex(result[1].value)

\* a field that holds a number other than NaN
Known(v) == v # Undefined /\ ~isNaN(v[1])
\* a <= b for two such numbers
NotAbove(a, b) ==
  \/ a = NegInf \/ b = PosInf
  \/ (a.fin /\ b.fin /\ a.c <= b.c)
\* a >= b on scores: false when either is NaN, as the comparison of the numbers is
ScoreAtLeast(a, b) == a.fin /\ b.fin /\ a.c >= b.c
\* the score of the call does not rise when its wave height, or its wind, does
NeverRises ==
  /\ Known(args.snapshot.hs) =>
       \A h2 \in HsValues :
         (Known(h2) /\ NotAbove(args.snapshot.hs[1], h2[1]))
           => ScoreAtLeast(result[1].value,
                           computeIoiFromMarine([args.snapshot EXCEPT !.hs = h2]))
  /\ Known(args.snapshot.windKt) =>
       \A w2 \in WindValues :
         (Known(w2) /\ NotAbove(args.snapshot.windKt[1], w2[1]))
           => ScoreAtLeast(result[1].value,
                           computeIoiFromMarine([args.snapshot EXCEPT !.windKt = w2]))

\* C17: with wind and period fixed, a wave height that is not lower never gives a
\* higher score; with wave height and period fixed, the same for the wind.
C17_Monotone ==
  Returned("computeIoiFromMarine") => NeverRises

\* C17 for the snapshots whose swell period is not NaN
C17_MonotoneButNaNPeriod ==
  (Returned("computeIoiFromMarine") /\ args.snapshot.swellPeriod # Some(NaN)) => NeverRises

\* ============================================ slot resolution, called directly
\* the instants of one day the calls are made at: each hour, on the hour and
\* three minutes before the next
SlotInstants ==
  {h * HOUR_MS + m * MINUTE_MS : h \in 0..23, m \in {0, 57}}

\* REPORT_TIMEZONE unset, empty or naming a zone
SlotEnvs ==
  {[FullEnv EXCEPT !.REPORT_TIMEZONE = z] :
     z \in {Undefined, Some(""), Some("Asia/Dubai"), Some("Asia/Karachi"), Some("UTC")}}

\* url.searchParams.get("slot"): absent, "am", "pm" or any other text
SlotParams ==
  {Undefined, Some("am"), Some("pm"), Some(""), Some("AM"), Some("noon")}

SlotCalls == [fn : {"normaliseSlot"}, slotParam : SlotParams, now : SlotInstants]

\* GET resolves the slot of its pass:
\* normaliseSlot(url.searchParams.get("slot"), now, resolveTimezone())
CallNormaliseSlot ==
  /\ args.fn = "normaliseSlot" /\ result = Undefined
  /\ result' = Some(normaliseSlot(args.slotParam, args.now, resolveTimezone(env)))
  /\ UNCHANGED <<clock, env, lastReport, passes, lockFile, ticks, requested, args, reportState>>

InitSlot ==
  /\ AtRest
  /\ env \in SlotEnvs
  /\ args \in SlotCalls
  /\ result = Undefined

NextSlot == CallNormaliseSlot

SpecSlot == InitSlot /\ [][NextSlot]_vars

\* the hour of the day, 0..23, that the instant t falls in on the wall clock
\* of the zone
LocalHour(t, timezone) == ((t \div HOUR_MS) + UtcOffsetHours(timezone)) % 24

\* C18: a request that supplies slot "am" or "pm" gets exactly that slot whatever
\* the instant; with no slot, or any other value, the slot is "am" if the local
\* hour of the instant in the configured timezone is below 12, and "pm" otherwise.
C18_SlotResolution ==
  Returned("normaliseSlot") =>
    LET slot == result[1].value
        given == args.slotParam
    IN IF given \in {Some("am"), Some("pm")}
       THEN slot = given[1]
       ELSE slot = (IF LocalHour(args.now, resolveTimezone(env)) < 12 THEN "am" ELSE "pm")

\* no usable slot is supplied at 07:57 UTC, which is before noon in UTC and after
\* noon in Asia/Karachi, and the slot resolved is "pm"
C18_Witness ==
  /\ Returned("normaliseSlot")
  /\ args.slotParam = Some("noon")
  /\ args.now = START
  /\ env.REPORT_TIMEZONE = Some("Asia/Karachi")
  /\ result[1].value = "pm"

\* ================================================= one pass, run start to end
\* the snapshots /api/marine can answer with: wave height and wind absent or
\* given, the precomputed index absent, given or not a finite number; a faulty
\* upstream can give a value below zero
MarineSnapshots ==
  [hs : {Undefined, Some(Num(120)), Some(Num(250)), Some(Num(0 - 120))},
   windKt : {Undefined, Some(Num(1540))},
   ioi : {Undefined, Some(Num(8200)), Some(Num(8250)), Some(Num(0 - 50)), Some(NaN)},
   port : {Undefined}]

\* the answers of the five endpoints to one pass
PassAnswers ==
  [vessel : VesselResponses,
   marine : {Json(200, s) : s \in MarineSnapshots} \cup {Status(503)},
   briefing : BriefingResponses \cup {Status(204), Json(200, [briefing |-> Undefined])},
   slack : SlackResponses,
   email : EmailResponses]

PassCalls == [fn : {"GET"}, req : Requests, in : PassAnswers]

\* GET(request) runs to its response: the response is returned and the record
\* of the pass, if it completed, is stored
CallGET ==
  /\ args.fn = "GET" /\ result = Undefined
  /\ LET out == GET(args.req, clock, env, lastReport, args.in)
     IN /\ result' = Some([value |-> out.response])
        /\ lastReport' = out.lastReport
  /\ UNCHANGED <<clock, env, passes, lockFile, ticks, requested, args, reportState>>

InitPass ==
  /\ AtRest
  /\ env = FullEnv
  /\ args \in PassCalls
  /\ result = Undefined

NextPass == CallGET

SpecPass == InitPass /\ [][NextPass]_vars

\* the pass of the call completed: both mandatory fetches succeeded
PassCompleted ==
  /\ Returned("GET")
  /\ ~args.req.preview
  /\ Succeeded(args.in.vessel) /\ Succeeded(args.in.briefing)

\* the index the risk scorer derives from a snapshot of /api/marine
DerivedIndex(snapshot) ==
  computeIoiFromMarine([hs |-> snapshot.hs, windKt |-> snapshot.windKt,
                        swellPeriod |-> Undefined])

\* the marine line with the two metrics to two decimals and the index text
MarineLineWith(snapshot, index) ==
  "[Marine Snapshot] Hs " \o toFixed2(snapshot.hs[1]) \o " m \\u00B7 Wind "
    \o toFixed2(snapshot.windKt[1]) \o " kt \\u00B7 IOI " \o index

\* C19: when the marine fetch succeeds with a snapshot that has wave height and
\* wind but no precomputed index, the last line of the composed sample shows Hs
\* and Wind to two decimals and an integer index in 0..100, the one the risk
\* scorer derives; the "n/a" index appears only when no index can be derived.
C19_LineCarriesDerivedIndex ==
  (PassCompleted /\ Succeeded(args.in.marine)) =>
    LET snapshot == args.in.marine.json[1]
        line == LastLine(result[1].value.body.sample)
    IN /\ (IsFiniteNumber(snapshot.hs) /\ IsFiniteNumber(snapshot.windKt)
             /\ snapshot.ioi = Undefined)
          => /\ \E n \in 0..100 : line = MarineLineWith(snapshot, ToString(n))
             /\ line = MarineLineWith(snapshot, toFixed0(DerivedIndex(snapshot)))
       /\ (IsFiniteNumber(snapshot.hs) /\ IsFiniteNumber(snapshot.windKt)
             /\ line = MarineLineWith(snapshot, "n/a"))
          => ~IsFiniteNumber(snapshot.ioi) /\ ~DerivedIndex(snapshot).fin

\* what the code does: the index of the line is the precomputed one, rounded to
\* an integer, and "n/a" when the snapshot carries none that is a finite number
C19_LineCarriesPrecomputedIndex ==
  (PassCompleted /\ Succeeded(args.in.marine)) =>
    LET snapshot == args.in.marine.json[1]
        line == LastLine(result[1].value.body.sample)
    IN (IsFiniteNumber(snapshot.hs) /\ IsFiniteNumber(snapshot.windKt))
       => line = MarineLineWith(snapshot,
                   IF IsFiniteNumber(snapshot.ioi) THEN toFixed0(snapshot.ioi[1]) ELSE "n/a")

\* ========================================== the route and the scheduler, live
\* A client calls the route while the scheduler fires; every network call that
\* was issued returns a response or raises.
LiveTicks == 1
LiveClients == {"p1"}
\* the passes of the clients and the passes that serve the dispatch requests
LivePasses == LiveClients \cup {TickPass(i) : i \in 1..LiveTicks}

\* the call the pass of a client awaits returns a response or raises, and the
\* pass runs on to its next await or to its response
PassReturns(p) ==
  \/ \E resp \in VesselResponses : VesselReturns(p, resp)
  \/ \E resp \in MarineResponses : MarineReturns(p, resp)
  \/ \E resp \in BriefingResponses : BriefingReturns(p, resp)
  \/ \E resp \in SlackResponses \cup {NoCall} : SlackReturns(p, resp)
  \/ \E resp \in EmailResponses \cup {NoCall} : EmailReturns(p, resp)

\* the same for the pass that serves the dispatch request of tick i
ServeReturns(i) ==
  \/ \E resp \in DispatchVessel : VesselReturns(TickPass(i), resp)
  \/ \E resp \in DispatchMarine : MarineReturns(TickPass(i), resp)
  \/ \E resp \in DispatchBriefing : BriefingReturns(TickPass(i), resp)
  \/ \E resp \in DispatchSlack : SlackReturns(TickPass(i), resp)
  \/ \E resp \in DispatchEmail : EmailReturns(TickPass(i), resp)

\* the dispatch request of tick i returns the response of the server, once GET
\* has returned it, or raises
TickReturns(i) ==
  \/ \E cause \in {"fetch rejected", "body not JSON"} : TickThrow(i, cause)
  \/ TickResponse(i)

\* what the clients ask for while the scheduler fires: a report, or a preview
LiveRequests == {req \in Requests : req.slot = Undefined}

NextLive ==
  \/ \E p \in LiveClients, req \in LiveRequests : Request(p, req)
  \/ \E p \in LiveClients : PassReturns(p)
  \/ \E i \in 1..LiveTicks, slot \in Slots : TickStart(i, slot)
  \/ \E i \in 1..LiveTicks : TickArrives(i)
  \/ \E i \in 1..LiveTicks : ServeReturns(i)
  \/ \E i \in 1..LiveTicks : TickReturns(i)

\* the jobs are due; the lock file is absent or was written a moment ago by the
\* tick of another scheduler process
InitLive ==
  /\ Init /\ clock = FIRST_FIRE /\ env = FullEnv
  /\ lockFile \in {Undefined, Some([slot |-> "am", timestamp |-> FIRST_FIRE])}

\* each call a pass awaits returns or raises, for the passes of the clients and
\* for the passes that serve the dispatch requests alike, and so does the
\* dispatch request of each tick; a request that left need not reach the server
Fairness ==
  /\ \A p \in LiveClients : WF_vars(PassReturns(p))
  /\ \A i \in 1..LiveTicks : WF_vars(ServeReturns(i))
  /\ \A i \in 1..LiveTicks : WF_vars(TickReturns(i))

SpecLive == InitLive /\ [][NextLive]_vars /\ Fairness

\* C20: provided each network call eventually returns a response or raises, every
\* pass that was called eventually returns its response, and every tick that
\* fired eventually reaches skip, dispatched or a logged failure.
C20_EveryTriggerTerminates ==
  /\ \A p \in LivePasses : (passes[p].pc # "free") ~> (passes[p].pc = "done")
  /\ \A i \in 1..LiveTicks :
       (ticks[i].pc # "idle") ~> (ticks[i].pc \in {"skip", "dispatched", "failed"})

\* the pass of a client and the pass serving a dispatch request both went through
\* all five awaits and returned, and the tick ended in a dispatch
C20_Witness ==
  /\ \A p \in LivePasses : /\ passes[p].pc = "done"
                           /\ passes[p].emailAnswer # NoCall
                           /\ passes[p].response # Undefined
  /\ \E i \in 1..LiveTicks : ticks[i].pc = "dispatched"

\* ------------------------------------------------------- order within a pass
\* the call of pass p to an endpoint has been issued: the pass is suspended at
\* its await or has received its answer
IssuedVessel(p) == passes[p].pc = "vessel" \/ passes[p].vesselAnswer # NoCall
IssuedMarine(p) == passes[p].pc = "marine" \/ passes[p].marineAnswer # NoCall
IssuedBriefing(p) == passes[p].pc = "briefing" \/ passes[p].briefingAnswer # NoCall
\* sendSlack or sendEmail has been called by pass p
IssuedSend(p) ==
  \/ passes[p].pc \in {"slack", "email"}
  \/ passes[p].slackAnswer # NoCall \/ passes[p].emailAnswer # NoCall
  \/ passes[p].sent # <<>>

\* C21: in every pass, a channel send is issued only after the vessel fetch and
\* the briefing fetch of that pass have both succeeded; the marine fetch and the
\* briefing fetch are issued only after its vessel fetch has succeeded; a pass
\* aborted by a mandatory failure has issued no channel send.
C21_OrderWithinPass ==
  \A p \in PassIds :
    /\ IssuedSend(p) => /\ Succeeded(passes[p].vesselAnswer)
                        /\ Succeeded(passes[p].briefingAnswer)
    /\ (IssuedMarine(p) \/ IssuedBriefing(p)) => Succeeded(passes[p].vesselAnswer)
    /\ IssuedBriefing(p) => passes[p].pc # "marine"
    /\ Aborted(p) => ~IssuedSend(p)

\* one pass was aborted by the briefing fetch after its marine fetch was
\* answered, and another went on to both sends
C21_Witness ==
  \E p, q \in PassIds :
    /\ Aborted(p) /\ Failed(passes[p].briefingAnswer)
    /\ passes[p].marineAnswer # NoCall /\ ~IssuedSend(p)
    /\ Completed(q) /\ Len(passes[q].sent) = 2

\* ------------------------------------------------------------------ no retry
\* the position of an await in GET
Stage(pc) ==
  CASE pc = "free" -> 0 [] pc = "vessel" -> 1 [] pc = "marine" -> 2
    [] pc = "briefing" -> 3 [] pc = "slack" -> 4 [] pc = "email" -> 5 [] pc = "done" -> 6

\* the answers pass p has received, by endpoint
AnswersOf(pass) ==
  <<pass.vesselAnswer, pass.marineAnswer, pass.briefingAnswer,
    pass.slackAnswer, pass.emailAnswer>>

\* this step is a step of the running pass p: it moves the pass to a later await
\* or to its response, and no endpoint that already answered answers again
StepsForward(p) ==
  /\ Stage(passes'[p].pc) > Stage(passes[p].pc)
  /\ \A k \in 1..5 : AnswersOf(passes[p])[k] # NoCall
                       => AnswersOf(passes'[p])[k] = AnswersOf(passes[p])[k]

\* C22: within one pass each upstream source and each channel endpoint is
\* requested at most once whatever the responses (every step of a pass leaves
\* the await it was at for a later one, never the same or an earlier one, and
\* a send issues at most one request); within one tick the dispatch endpoint is
\* requested at most once and the lock is written at most once.
C22_NoRetry ==
  [][/\ \A p \in LivePasses :
          (passes[p].pc # "free" /\ passes'[p] # passes[p]) => StepsForward(p)
     /\ \A p \in LivePasses :
          passes'[p].pc \in {"slack", "email"}
            => /\ sendSlackRequests(SlackOptions(passes'[p]), env) \in {0, 1}
               /\ sendEmailRequests(EmailOptions(passes'[p]), env) \in {0, 1}
     /\ \A i \in TickIds :
          /\ ticks'[i].requests <= 1 /\ ticks'[i].writes <= 1
          /\ ticks'[i].requests >= ticks[i].requests
          /\ ticks'[i].writes >= ticks[i].writes
          /\ (passes[TickPass(i)].pc # "free" /\ passes'[TickPass(i)] # passes[TickPass(i)])
               => passes'[TickPass(i)].pc # "vessel"
     /\ lockFile' # lockFile
          => \E i \in TickIds : /\ ticks[i].writes = 0 /\ ticks'[i].writes = 1
                                /\ \A j \in TickIds \ {i} : ticks'[j] = ticks[j]]_vars

\* the pass of a client and the pass serving a dispatch request have returned
\* after all five endpoints answered each of them, and the tick has dispatched,
\* with one request, and written the lock, once
C22_Witness ==
  /\ \A p \in LivePasses : /\ passes[p].pc = "done"
                           /\ \A k \in 1..5 : AnswersOf(passes[p])[k] # NoCall
  /\ \E i \in TickIds : /\ ticks[i].pc = "dispatched" /\ ticks[i].writes = 1
                        /\ ticks[i].requests = 1
                        /\ lockFile = Some([slot |-> ticks[i].slot, timestamp |-> ticks[i].now])

\* ------------------------------------------------------ the last-report store
\* the record of a completed pass, from the locals of that pass alone
OwnRecord(pass) ==
  [slot |-> pass.slot[1], generatedAt |-> toISOString(pass.at),
   timezone |-> pass.timezone, sample |-> pass.sample, sent |-> pass.sent]

\* C23: under any interleaving of overlapping passes the stored last report is
\* empty until a pass completes, changes only in the step that completes a
\* pass that was not aborted, and is then exactly the record of that one pass
\* (slot, generatedAt, timezone, sample and sent all of that pass); so after
\* all passes finish it is the record of the pass that wrote last.
C23_AtomicLastWriterWins ==
  /\ lastReport = Undefined
  /\ [][IF \E p \in PassIds : Completes(p)
        THEN \E p \in PassIds :
               /\ Completes(p)
               /\ Succeeded(passes'[p].vesselAnswer)
               /\ Succeeded(passes'[p].briefingAnswer)
               /\ lastReport' = Some(OwnRecord(passes'[p]))
        ELSE lastReport' = lastReport]_vars

\* two overlapping passes with different slots and different channel results
\* have both completed, and the stored report is the record of one of them
C23_Witness ==
  /\ Completed("p1") /\ Completed("p2")
  /\ passes["p1"].slot # passes["p2"].slot
  /\ passes["p1"].sent # passes["p2"].sent
  /\ lastReport = Some(OwnRecord(passes["p2"]))
  /\ lastReport # Some(OwnRecord(passes["p1"]))

\* ------------------------------------------------------- what the lock holds
\* the dispatch request of tick i returns, in this step, an HTTP success whose
\* body has ok = true
ReturnsSuccess(i) ==
  /\ ticks[i].pc = "awaiting" /\ ticks'[i].pc = "dispatched"
  /\ passes[TickPass(i)].pc = "done"
  /\ Served(i)[1].status \in 200..299
  /\ Served(i)[1].body.ok = TRUE

\* C24: the persisted lock changes only in a step in which the dispatch request
\* of a tick returned an HTTP success whose body has ok = true, and the value
\* written is the slot of that tick with the time the tick read when it
\* started, before its request was issued.
C24_LockWrittenOnlyOnSuccess ==
  [][/\ lockFile' # lockFile
          => \E i \in TickIds :
               /\ ReturnsSuccess(i)
               /\ lockFile' = Some([slot |-> ticks[i].slot, timestamp |-> ticks[i].now])
     /\ \A i \in TickIds, slot \in Slots :
          (ticks[i].pc = "idle" /\ ticks'[i].pc = "awaiting" /\ ticks'[i].slot = slot)
            => /\ ticks'[i].now = clock /\ lockFile' = lockFile]_vars

\* a tick that started before the clock moved has written the lock, with its
\* start time, after the clock moved
C24_Witness ==
  \E i \in TickIds :
    /\ ticks[i].pc = "dispatched"
    /\ ticks[i].now < clock
    /\ lockFile = Some([slot |-> ticks[i].slot, timestamp |-> ticks[i].now])

\* ================================================= report-state.ts, the store
MaxCalls == 5

\* the records the callers store
ReportRecords ==
  {[generatedAt |-> "1970-01-01T02:00:00.000Z", slot |-> "am", ok |-> TRUE,
    sent |-> <<[channel |-> "slack", ok |-> TRUE]>>,
    sample |-> <<"Morning">>, timezone |-> "Asia/Dubai"],
   [generatedAt |-> "1970-01-01T13:00:00.000Z", slot |-> "pm", ok |-> FALSE,
    sent |-> <<[channel |-> "slack", ok |-> FALSE, error |-> "Slack webhook error"]>>,
    sample |-> <<"Evening">>, timezone |-> "Asia/Dubai"],
   [generatedAt |-> "1970-01-02T02:00:00.000Z", slot |-> "am", ok |-> FALSE,
    sent |-> <<>>, sample |-> <<>>, timezone |-> "UTC"]}

\* the module variable after setLastReport(record)
setLastReport(stored, record) == Some(record)
\* the value getLastReport() returns
getLastReport(stored) == stored
\* clearLastReport leaving the record in place
clearLastReport_Keeps(stored) == stored
\* the module variable after clearLastReport()
clearLastReport(stored) == Undefined

CallSetLastReport(record) ==
  /\ Len(reportState.calls) < MaxCalls
  /\ reportState' = [reportState EXCEPT
                       !.lastReport = setLastReport(reportState.lastReport, record),
                       !.calls = Append(@, [fn |-> "set", record |-> record])]
  /\ UNCHANGED <<clock, env, lastReport, passes, lockFile, ticks, requested, args, result>>

CallGetLastReport ==
  /\ Len(reportState.calls) < MaxCalls
  /\ reportState' = [reportState EXCEPT
                       !.returned = <<getLastReport(reportState.lastReport)>>,
                       !.calls = Append(@, [fn |-> "get"])]
  /\ UNCHANGED <<clock, env, lastReport, passes, lockFile, ticks, requested, args, result>>

CallClearLastReport ==
  /\ Len(reportState.calls) < MaxCalls
  /\ reportState' = [reportState EXCEPT
                       !.lastReport = clearLastReport(reportState.lastReport),
                       !.calls = Append(@, [fn |-> "clear"])]
  /\ UNCHANGED <<clock, env, lastReport, passes, lockFile, ticks, requested, args, result>>

InitStore == AtRest /\ env = FullEnv /\ args = NoArgs /\ result = Undefined

NextStore ==
  \/ \E record \in ReportRecords : CallSetLastReport(record)
  \/ CallGetLastReport
  \/ CallClearLastReport

SpecStore == InitStore /\ [][NextStore]_vars

\* the argument of the most recent setLastReport among the first n calls if no
\* clearLastReport followed it, and null otherwise
RECURSIVE MostRecent(_, _)
MostRecent(calls, n) ==
  IF n = 0 THEN Undefined
  ELSE IF calls[n].fn = "set" THEN Some(calls[n].record)
  ELSE IF calls[n].fn = "clear" THEN Undefined
  ELSE MostRecent(calls, n - 1)

\* C25: after any sequence of setLastReport and clearLastReport calls,
\* getLastReport returns the argument of the most recent setLastReport if no
\* clearLastReport followed it, and null otherwise, initially included; no
\* earlier record is observable again.
C25_SingleSlotStore ==
  LET calls == reportState.calls
      n == Len(calls)
  IN (n > 0 /\ calls[n].fn = "get")
       => reportState.returned = <<MostRecent(calls, n - 1)>>

\* a record was stored and replaced by another, and getLastReport returned the
\* second; then the store was cleared and getLastReport returned null
C25_Witness ==
  /\ Len(reportState.calls) = 5
  /\ reportState.calls[1].fn = "set" /\ reportState.calls[2].fn = "set"
  /\ reportState.calls[1] # reportState.calls[2]
  /\ reportState.calls[3].fn = "get"
  /\ reportState.calls[4].fn = "clear"
  /\ reportState.calls[5].fn = "get"
  /\ reportState.returned = <<Undefined>>

\* -------------------------------------------------------- the scorer's formula
\* The sub-scores of the formula, as whole numbers of 1/3000 (3000 stands for 1),
\* from the values of a snapshot in hundredths.
\* a value that is unknown: absent, null or NaN
Unknown(v) == v = Undefined \/ isNaN(v[1])
\* 1 at or below low, 0 at or above high, linear between; 1/2 when unknown
FallingSub(v, low, high) ==
  IF Unknown(v) THEN 1500
  ELSE IF LessEq(v[1], low) THEN 3000
  ELSE IF GreaterEq(v[1], high) THEN 0
  ELSE 3000 - (3000 * (v[1].c - low)) \div (high - low)
\* (clamp(period, 6, 12) - 6) / 6, a missing period being 8 s
SwellSub(period) ==
  LET p == IF period = Undefined THEN Num(800) ELSE period[1]
      clamped == IF LessEq(p, 600) THEN 600 ELSE IF GreaterEq(p, 1200) THEN 1200 ELSE p.c
  IN (3000 * (clamped - 600)) \div 600
\* 100 * (0.50 * waveSub + 0.35 * windSub + 0.15 * swellSub), in 1/3000
WeightedSum(snapshot) ==
  50 * FallingSub(snapshot.hs, 150, 250) + 35 * FallingSub(snapshot.windKt, 1800, 2800)
    + 15 * SwellSub(snapshot.swellPeriod)
\* round(x / 3000) for x >= 0, a half going up as Math.round takes it
RoundHalfUp(x) == (2 * x + 3000) \div 6000
\* n is an integer nearest to x / 3000: either neighbour of an exact half
NearestTo(n, x) == 2 * n * 3000 - 3000 <= 2 * x /\ 2 * x <= 2 * n * 3000 + 3000

\* the corners of the formula: 100 for (hs <= 1.5, wind <= 18, period >= 12) and
\* 0 for (hs >= 2.5, wind >= 28, period <= 6)
Corners(s, score) ==
  /\ (/\ ~Unknown(s.hs) /\ LessEq(s.hs[1], 150)
      /\ ~Unknown(s.windKt) /\ LessEq(s.windKt[1], 1800)
      /\ s.swellPeriod # Undefined /\ GreaterEq(s.swellPeriod[1], 1200))
       => score = Num(100 * 100)
  /\ (/\ ~Unknown(s.hs) /\ GreaterEq(s.hs[1], 250)
      /\ ~Unknown(s.windKt) /\ GreaterEq(s.windKt[1], 2800)
      /\ s.swellPeriod # Undefined /\ LessEq(s.swellPeriod[1], 600))
       => score = Num(0)

C27_SkipChangesNothing ==
  [][\A i \in TickIds :
       /\ (Starts(i) /\ ticks'[i].pc = "skip")
            => /\ lockFile' = lockFile
               /\ lastReport' = lastReport
               /\ passes' = passes
               /\ ticks'[i].requests = 0 /\ ticks'[i].writes = 0
               /\ \A slot \in Slots, t \in Instants :
                    Suppressed(slot, lockFile', t) = Suppressed(slot, lockFile, t)
       /\ ticks[i].pc = "skip"
            => (ticks'[i] = ticks[i] /\ passes'[TickPass(i)].pc = "free")]_vars

\* a tick was skipped some time after the dispatch that wrote the lock, and the
\* lock still holds the time of that dispatch
C27_Witness ==
  \E i, j \in TickIds :
    /\ ticks[i].pc = "dispatched" /\ ticks[j].pc = "skip" /\ ticks[j].slot = ticks[i].slot
    /\ clock = ticks[i].now + LAG_MS
    /\ lockFile = Some([slot |-> ticks[i].slot, timestamp |-> ticks[i].now])

\* ------------------------------------------------- the lock, from end to end
\* the server has answered the dispatch request of tick i
Answered(i) == passes[TickPass(i)].pc = "done"
\* the pass that answered tick i served slot s, was called at t or later, and
\* completed: both mandatory fetches succeeded
PassRan(i, s, t) ==
  /\ passes[TickPass(i)].slotParam = Some(s) /\ passes[TickPass(i)].slot = Some(s)
  /\ passes[TickPass(i)].at >= t
  /\ Succeeded(passes[TickPass(i)].vesselAnswer)
  /\ Succeeded(passes[TickPass(i)].briefingAnswer)
  /\ Served(i)[1].status = 200
\* at least one of its two channel sends returned ok = true
SomeChannelOk(i) ==
  /\ Len(passes[TickPass(i)].sent) = 2
  /\ Served(i)[1].body.sent = passes[TickPass(i)].sent
  /\ \E k \in 1..2 : passes[TickPass(i)].sent[k].ok = TRUE

\* C28: whenever the lock file holds a record {slot s, timestamp t} that the
\* scheduler wrote (any record but the one it found when it started), a dispatch
\* request for slot s started at t was answered by a pass in which the vessel and
\* briefing fetches succeeded and at least one channel send returned ok = true; a
\* pass in which every channel failed never causes a write of the lock.
C28_LockMeansDelivered ==
  /\ []((readLock(lockFile) # Undefined /\ lockFile # Some(HeldLock))
          => \E i \in TickIds :
               /\ ticks[i].pc = "dispatched" /\ ticks[i].requests = 1
               /\ readLock(lockFile)[1].slot = ticks[i].slot
               /\ readLock(lockFile)[1].timestamp = ticks[i].now
               /\ Answered(i) /\ PassRan(i, ticks[i].slot, ticks[i].now)
               /\ SomeChannelOk(i))
  /\ [][\A i \in TickIds :
          (/\ Answered(i) /\ PassRan(i, ticks[i].slot, ticks[i].now)
           /\ \A k \in 1..2 : passes[TickPass(i)].sent[k].ok = FALSE)
            => /\ ticks'[i].pc # "dispatched" /\ ticks'[i].writes = 0
               /\ lockFile' # lockFile
                    => \E j \in TickIds \ {i} : ticks'[j].writes > ticks[j].writes]_vars

\* one tick was answered by a pass whose two channels failed and left the lock
\* unwritten; another was answered by a pass with a channel that took the report
\* and wrote the lock
C28_Witness ==
  \E i, j \in TickIds :
    /\ ticks[i].pc = "failed" /\ Answered(i) /\ Served(i)[1].status = 200
    /\ \A k \in 1..2 : passes[TickPass(i)].sent[k].ok = FALSE
    /\ ticks[j].pc = "dispatched" /\ Answered(j) /\ SomeChannelOk(j)
    /\ lockFile = Some([slot |-> ticks[j].slot, timestamp |-> ticks[j].now])

\* ------------------------------------------------------ the lock's timestamp
\* C29: the timestamp of the lock file never decreases from one write to the
\* next, for every interleaving of ticks, those of the two slots whose
\* dispatch requests overlap and complete in another order than they started
\* included.
C29_TimestampNeverDecreases ==
  [][(readLock(lockFile) # Undefined /\ readLock(lockFile') # Undefined)
       => readLock(lockFile')[1].timestamp >= readLock(lockFile)[1].timestamp]_vars

\* C29 for ticks that return in the order they started
C29_TimestampNeverDecreasesInOrder ==
  [][(/\ readLock(lockFile) # Undefined /\ readLock(lockFile') # Undefined
      /\ \A i, j \in TickIds :
           (ticks[i].pc = "awaiting" /\ ticks'[i].pc = "dispatched"
              /\ ticks[j].pc = "dispatched")
             => ticks[j].now <= ticks[i].now)
       => readLock(lockFile')[1].timestamp >= readLock(lockFile)[1].timestamp]_vars

\* ------------------------------------------------------------ the skip guard
\* the lock file exists and parses to a record
Readable(file) == file # Undefined /\ file[1] # Garbage

\* C30: a tick for slot s is skipped only if a readable lock exists with slot s
\* and a timestamp strictly less than 5 minutes before the tick's start; a tick
\* exactly 5 minutes or more after the timestamp, a tick when the lock names the
\* other slot, and a tick when the lock is absent or unreadable, all issue the
\* dispatch request.
C30_SkipGuard ==
  [][\A i \in TickIds :
       Starts(i) =>
         IF /\ Readable(lockFile)
            /\ lockFile[1].slot = ticks'[i].slot
            /\ clock - lockFile[1].timestamp < 5 * MINUTE_MS
         THEN ticks'[i].pc = "skip" /\ ticks'[i].requests = 0
         ELSE ticks'[i].pc = "awaiting" /\ ticks'[i].requests = 1]_vars

\* a tick started exactly 5 minutes after the timestamp of the lock of its own
\* slot and issued its request, and the tick before it, for the other slot,
\* issued its request as well
C30_Witness ==
  /\ Readable(lockFile)
  /\ ticks[1].pc = "awaiting" /\ ticks[1].requests = 1
  /\ ticks[1].slot # lockFile[1].slot
  /\ ticks[2].pc = "awaiting" /\ ticks[2].requests = 1
  /\ lockFile[1].slot = ticks[2].slot
  /\ ticks[2].now = lockFile[1].timestamp + 5 * MINUTE_MS

====
